---- MODULE Spec2Model ----
(***************************************************************************)
(* Rule expressions (Rex) of cesar-lang: construction (with_more), the     *)
(* FIT (fat-into-thin) transformation, normalisation (fit_clone) and the   *)
(* compiler's post-order fold (get_compiled_content), from src/src/rex.rs. *)
(*                                                                         *)
(* Indices into `kinds` are 0-based as in the source; the TLA+ sequence    *)
(* holding `kinds` is 1-based, so kinds[i] of the source is rex[i + 1].    *)
(***************************************************************************)
EXTENDS Integers, Sequences, FiniteSets, TLC

(***************************************************************************)
(* Bounds of the model.                                                    *)
(***************************************************************************)
\* nodes are 1..NumNodes, ordered as their names are (a = 1, b = 2, c = 3)
NumNodes == 3
\* longest tail of (op, poly) pairs given to FatArrowRule::from_parts
MaxTail == 2
\* longest suffix list given to Rex::with_more
MaxSuffix == 3
\* largest kinds.len() of a Rex that with_more builds
MaxKinds == 7
\* the grammars the generator is given have at most MaxProds productions
MaxProds == 4
\* the calls of next(), and the turns of its loop in one call, that are
\* followed
MaxCalls == 6
MaxTurns == 12

Nodes == 1..NumNodes

(***************************************************************************)
(* Polynomial and NodeList (crate::polynomial, crate::NodeList).           *)
(* A Polynomial is a set of monomials, a monomial a set of nodes; a        *)
(* NodeList is a sequence of distinct nodes in ascending order.            *)
(***************************************************************************)
RECURSIVE SortedSeq(_)
SortedSeq(S) ==
    IF S = {} THEN << >>
    ELSE LET m == CHOOSE x \in S : \A y \in S : x <= y
         IN  << m >> \o SortedSeq(S \ {m})

Range(s) == { s[i] : i \in DOMAIN s }

EmptyPoly == {}

\* Polynomial::add_assign: the sum keeps every monomial of both once
PolyAdd(p, q) == p \cup q

\* Polynomial::flattened_clone: one monomial holding every node mentioned
flattened_clone(p) == { UNION p }

\* TryFrom<Polynomial> for NodeList: a single monomial, else NotANodeList
NotANodeList == "NotANodeList"
PolyToNodeList(p) ==
    IF Cardinality(p) = 1
    THEN SortedSeq(CHOOSE m \in p : TRUE)
    ELSE NotANodeList

\* NodeList::add_assign: the nodes of both, distinct, in order
NodeListAdd(n1, n2) == SortedSeq(Range(n1) \cup Range(n2))

\* the polynomials the model draws from: one or two monomials, two nodes
\* mentioned at most
Monomials == { m \in SUBSET Nodes : m # {} /\ Cardinality(m) <= 2 }
Polys ==
    { {m} : m \in Monomials }
    \cup { {{x}, {y}} : x \in Nodes, y \in Nodes }

(***************************************************************************)
(* ThinArrowRule, FatArrow, FatArrowRule.                                  *)
(***************************************************************************)
\* ThinArrowRule::new() with with_nodes, with_cause, with_effect
ThinArrowRule(nodes, cause, effect) ==
    [nodes |-> nodes, cause |-> cause, effect |-> effect]

FatArrow(cause, effect) == [cause |-> cause, effect |-> effect]

FatOps == {"FatTx", "FatRx", "FatDx"}

\* a pass that never moves prev on from the head
RECURSIVE from_parts_loop_stuck(_, _, _)
from_parts_loop_stuck(prev, tail, i) ==
    IF i > Len(tail) THEN << >>
    ELSE LET op   == tail[i][1]
             poly == tail[i][2]
             emit == CASE op = "FatTx" -> << FatArrow(prev, poly) >>
                       [] op = "FatRx" -> << FatArrow(poly, prev) >>
                       [] op = "FatDx" -> << FatArrow(prev, poly),
                                             FatArrow(poly, prev) >>
         IN  emit \o from_parts_loop_stuck(prev, tail, i + 1)

\* FatArrowRule::from_parts: one left-to-right pass over the tail with
\* prev := head; the result is the sequence far.parts
RECURSIVE from_parts_loop(_, _, _)
from_parts_loop(prev, tail, i) ==
    IF i > Len(tail) THEN << >>
    ELSE LET op   == tail[i][1]
             poly == tail[i][2]
             emit == CASE op = "FatTx" -> << FatArrow(prev, poly) >>
                       [] op = "FatRx" -> << FatArrow(poly, prev) >>
                       [] op = "FatDx" -> << FatArrow(prev, poly),
                                             FatArrow(poly, prev) >>
         IN  emit \o from_parts_loop(poly, tail, i + 1)

from_parts(head, tail) == from_parts_loop(head, tail, 1)

(***************************************************************************)
(* FIT: impl From<&FatArrowRule> for Vec<ThinArrowRule>.                   *)
(***************************************************************************)
\* phase 1: each part gives an effect-only rule and a cause-only rule
Phase1Tx(parts) ==
    [i \in 1..Len(parts) |->
        ThinArrowRule(PolyToNodeList(flattened_clone(parts[i].cause)),
                      EmptyPoly, parts[i].effect)]

Phase1Rx(parts) ==
    [i \in 1..Len(parts) |->
        ThinArrowRule(PolyToNodeList(flattened_clone(parts[i].effect)),
                      parts[i].cause, EmptyPoly)]

\* the test of the inner loop of each pass: "tx2"/"rx2" compare node lists,
\* "tx3" compares effects, "rx3" compares causes
SameKey(pass, t2, t1) ==
    CASE pass = "tx2" -> t2.nodes = t1.nodes
      [] pass = "rx2" -> t2.nodes = t1.nodes
      [] pass = "tx3" -> t2.effect = t1.effect
      [] pass = "rx3" -> t2.cause = t1.cause

\* an inner loop that assigns where the code adds
IntegrateAssign(pass, t2, t1) ==
    CASE pass = "tx2" -> [t2 EXCEPT !.effect = t1.effect]
      [] pass = "rx2" -> [t2 EXCEPT !.cause = t1.cause]
      [] pass = "tx3" -> [t2 EXCEPT !.nodes = t1.nodes]
      [] pass = "rx3" -> [t2 EXCEPT !.nodes = t1.nodes]

\* what the inner loop does to the rule already kept
Integrate(pass, t2, t1) ==
    CASE pass = "tx2" -> [t2 EXCEPT !.effect = PolyAdd(t2.effect, t1.effect)]
      [] pass = "rx2" -> [t2 EXCEPT !.cause = PolyAdd(t2.cause, t1.cause)]
      [] pass = "tx3" -> [t2 EXCEPT !.nodes = NodeListAdd(t2.nodes, t1.nodes)]
      [] pass = "rx3" -> [t2 EXCEPT !.nodes = NodeListAdd(t2.nodes, t1.nodes)]

\* index of the first kept rule with the key of t1, 0 if none
FirstMatch(pass, kept, t1) ==
    LET hits == { j \in 1..Len(kept) : SameKey(pass, kept[j], t1) }
    IN  IF hits = {} THEN 0 ELSE CHOOSE j \in hits : \A k \in hits : j <= k

\* an 'outer loop body that pushes t1 whether or not a kept rule matched
MergeStepPush(pass, kept, t1, j) == Append(kept, t1)

\* the body of an 'outer loop for the rule t1, j being the first match:
\* t1 is folded into the rule kept at j, or pushed
MergeStep(pass, kept, t1, j) ==
    IF j > 0
    THEN [kept EXCEPT ![j] = Integrate(pass, kept[j], t1)]
    ELSE Append(kept, t1)

\* one 'outer loop over tars; merged is the negation of at_fixpoint
RECURSIVE MergePass(_, _, _, _, _)
MergePass(pass, tars, i, kept, merged) ==
    IF i > Len(tars) THEN [tars |-> kept, merged |-> merged]
    ELSE MergePass(pass, tars, i + 1,
                   MergeStep(pass, kept, tars[i], FirstMatch(pass, kept, tars[i])),
                   merged \/ FirstMatch(pass, kept, tars[i]) > 0)

\* the end of one iteration of the loop: the lists of phase 3 replace
\* tx_tars and rx_tars, and at_fixpoint tells whether no pass merged
LoopEnd(tx_2, rx_2, tx_3, rx_3) ==
    [tx_tars |-> tx_3.tars, rx_tars |-> rx_3.tars,
     at_fixpoint |-> ~(tx_2.merged \/ rx_2.merged
                        \/ tx_3.merged \/ rx_3.merged)]

\* phase 3, on the lists of phase 2
Phase3(tx_2, rx_2) ==
    LoopEnd(tx_2, rx_2,
            MergePass("tx3", tx_2.tars, 1, << >>, FALSE),
            MergePass("rx3", rx_2.tars, 1, << >>, FALSE))

\* one iteration of the loop: phase 2 then phase 3, on both lists
LoopBody(tx, rx) ==
    Phase3(MergePass("tx2", tx, 1, << >>, FALSE),
           MergePass("rx2", rx, 1, << >>, FALSE))

\* the loop: iterations are repeated until one merges nothing
RECURSIVE FitLoop(_, _)
FitLoopOn(b) == IF b.at_fixpoint THEN b ELSE FitLoop(b.tx_tars, b.rx_tars)
FitLoop(tx, rx) == FitLoopOn(LoopBody(tx, rx))

\* a step 4 that finds no rule to pair with
FirstSameNodesNone(tx, rx_tar) == 0

\* index of the first rule of tx with the node list of rx_tar, 0 if none
FirstSameNodes(tx, rx_tar) ==
    LET hits == { j \in 1..Len(tx) : rx_tar.nodes = tx[j].nodes }
    IN  IF hits = {} THEN 0 ELSE CHOOSE j \in hits : \A k \in hits : j <= k

\* the body of 'outer_4 for rx_tar, j being the first match: the cause
\* of rx_tar is assigned to the rule at j, or rx_tar is pushed
PairUp(tx, rx_tar, j) ==
    IF j > 0
    THEN [tx EXCEPT ![j].cause = rx_tar.cause]
    ELSE Append(tx, rx_tar)

\* phase 4
RECURSIVE Phase4(_, _, _)
Phase4(tx, rx, i) ==
    IF i > Len(rx) THEN tx
    ELSE Phase4(PairUp(tx, rx[i], FirstSameNodes(tx, rx[i])), rx, i + 1)

Phase4Of(fix) == Phase4(fix.tx_tars, fix.rx_tars, 1)

FIT(parts) == Phase4Of(FitLoop(Phase1Tx(parts), Phase1Rx(parts)))

(***************************************************************************)
(* Rex and RexKind.  ids are 0-based indices into kinds.                   *)
(***************************************************************************)
Thin(tar)      == [kind |-> "Thin", tar |-> tar]
Fat(parts)     == [kind |-> "Fat", parts |-> parts]
Instance(name) == [kind |-> "Instance", name |-> name]
Product(ids)   == [kind |-> "Product", ids |-> ids]
Sum(ids)       == [kind |-> "Sum", ids |-> ids]

IsTree(k) == k.kind \in {"Product", "Sum"}

\* append_with_offset without the shift of the ids
ShiftKindsNoShift(source, offset) == source

\* AppendWithOffset::append_with_offset: the source's kinds with every id
\* of a Sum or Product raised by offset (the kinds that are extended)
ShiftKinds(source, offset) ==
    [i \in 1..Len(source) |->
        IF IsTree(source[i])
        THEN [source[i] EXCEPT !.ids = [j \in 1..Len(@) |-> @[j] + offset]]
        ELSE source[i]]

\* the state of with_more's loops after kinds.append_with_offset(source,
\* st.offset), whose result is assigned to offset
append_with_offset(st, source) ==
    [st EXCEPT !.kinds  = @ \o ShiftKinds(source, st.offset),
               !.offset = st.offset + Len(source)]

\* with_more, all operators None: the loop over rexlist
RECURSIVE ProductLoop(_, _, _)
ProductLoop(st, rexlist, i) ==
    IF i > Len(rexlist) THEN st
    ELSE ProductLoop(
            append_with_offset([st EXCEPT !.ids = Append(@, st.offset)],
                               rexlist[i][2]),
            rexlist, i + 1)

\* what a panic!() leaves of the loop state, and of the result
Panic == [panicked |-> TRUE]
Panicked == << [kind |-> "Panic"] >>

\* with_more, some operator Add: one turn of the loop over rexlist.
\* followed_by_product.next().unwrap_or(false) is whether the next
\* element of rexlist has no operator.
SumStep(st, rexlist, i) ==
    LET op  == rexlist[i][1]
        rex == rexlist[i][2]
        is_followed_by_product ==
            IF i < Len(rexlist) THEN rexlist[i + 1][1] = "None" ELSE FALSE
    IN  IF op = "Add"
        THEN IF st.product_ids # << >> /\ st.kinds[st.anchor + 1].kind # "Product"
             THEN Panic
             ELSE LET s1 == IF st.product_ids # << >>
                            THEN [st EXCEPT
                                    !.kinds[st.anchor + 1].ids = @ \o st.product_ids,
                                    !.product_ids = << >>]
                            ELSE st
                      s2 == [s1 EXCEPT !.sum_ids = Append(@, s1.anchor),
                                       !.anchor  = s1.offset]
                      s3 == IF is_followed_by_product
                            THEN [s2 EXCEPT
                                    !.kinds       = Append(@, Product(<< >>)),
                                    !.offset      = s2.offset + 1,
                                    !.product_ids = Append(@, s2.offset + 1)]
                            ELSE s2
                  IN  append_with_offset(s3, rex)
        ELSE IF op = "None"
        THEN append_with_offset(
                [st EXCEPT !.product_ids = Append(@, st.offset)], rex)
        ELSE Panic

RECURSIVE SumLoop(_, _, _)
SumLoop(st, rexlist, i) ==
    IF st.panicked \/ i > Len(rexlist) THEN st
    ELSE SumLoop(SumStep(st, rexlist, i), rexlist, i + 1)

\* with_more, all operators None: kinds[0] gets the ids
ProductEnd(st) == [st.kinds EXCEPT ![1] = Product(st.ids)]

\* with_more, some operator Add: the pending product gets its ids, the
\* last addend is pushed and kinds[0] gets the ids of the addends
SumEnd(st) ==
    IF st.panicked THEN Panicked
    ELSE [ (IF st.product_ids # << >>
            THEN [st.kinds EXCEPT ![st.anchor + 1] = Product(st.product_ids)]
            ELSE st.kinds)
           EXCEPT ![1] = Sum(Append(st.sum_ids, st.anchor)) ]

\* a start that pushes the Product whatever follows self
SumStartUnpruned(first_is_product) ==
    [kinds |-> << Sum(<< >>), Product(<< >>) >>, sum_ids |-> << >>,
     product_ids |-> << 2 >>, anchor |-> 1, offset |-> 2,
     panicked |-> FALSE]

\* with_more, some operator Add: the state before self is appended
SumStart(first_is_product) ==
    IF first_is_product
    THEN [kinds |-> << Sum(<< >>), Product(<< >>) >>, sum_ids |-> << >>,
          product_ids |-> << 2 >>, anchor |-> 1, offset |-> 2,
          panicked |-> FALSE]
    ELSE [kinds |-> << Sum(<< >>) >>, sum_ids |-> << >>,
          product_ids |-> << >>, anchor |-> 1, offset |-> 1,
          panicked |-> FALSE]

\* Rex::with_more(self, rexlist); rexlist is a sequence of <<op, rex>>
\* with op "None" or "Add"
with_more(self, rexlist) ==
    IF rexlist = << >> THEN self
    ELSE IF \A i \in 1..Len(rexlist) : rexlist[i][1] = "None"
    THEN ProductEnd(ProductLoop(
            append_with_offset(
                [kinds |-> << Product(<< >>) >>, ids |-> << 1 >>, offset |-> 1],
                self),
            rexlist, 1))
    ELSE SumEnd(SumLoop(
            append_with_offset(SumStart(rexlist[1][1] = "None"), self),
            rexlist, 1))

\* an expansion that stores the rules in the reverse of FIT's order
FatExpansionReversed(tars) ==
    << Sum([k \in 1..Len(tars) |-> 0]) >>
    \o [k \in 1..Len(tars) |-> Thin(tars[Len(tars) + 1 - k])]

\* fit_clone, first loop, for a Fat: a Sum of as many zero ids as FIT
\* returns rules, followed by those rules
FatExpansion(tars) ==
    << Sum([k \in 1..Len(tars) |-> 0]) >> \o [k \in 1..Len(tars) |-> Thin(tars[k])]

\* fit_clone whose first loop clones every kind, a Fat too
FitCloneCopyKeepFat(kinds, i, new_kinds, id_map) ==
    [new_kinds |-> kinds, id_map |-> [k \in 1..Len(kinds) |-> k - 1]]

\* a first loop that records a kind's new id after pushing the kind
RECURSIVE FitCloneCopyLate(_, _, _, _)
FitCloneCopyLate(kinds, i, new_kinds, id_map) ==
    IF i > Len(kinds) THEN [new_kinds |-> new_kinds, id_map |-> id_map]
    ELSE FitCloneCopyLate(kinds, i + 1,
            IF kinds[i].kind = "Fat"
            THEN new_kinds \o FatExpansion(FIT(kinds[i].parts))
            ELSE Append(new_kinds, kinds[i]),
            Append(id_map, Len(new_kinds) + 1))

\* fit_clone, first loop: the new kinds and id_map (old id -> new id)
RECURSIVE FitCloneCopy(_, _, _, _)
FitCloneCopy(kinds, i, new_kinds, id_map) ==
    IF i > Len(kinds) THEN [new_kinds |-> new_kinds, id_map |-> id_map]
    ELSE FitCloneCopy(kinds, i + 1,
            IF kinds[i].kind = "Fat"
            THEN new_kinds \o FatExpansion(FIT(kinds[i].parts))
            ELSE Append(new_kinds, kinds[i]),
            Append(id_map, Len(new_kinds)))

\* fit_clone, second loop, for the new kind at index ndx: ids that start
\* with a non-zero id are translated by id_map, ids that start with zero
\* are numbered from ndx + 1 on; an empty tree and a failed assertion panic
FitCloneFix(new_kind, ndx, id_map) ==
    IF ~IsTree(new_kind) THEN new_kind
    ELSE LET ids == new_kind.ids
         IN  IF ids = << >> THEN Panic
             ELSE IF ids[1] > 0
             THEN IF \E j \in 1..Len(ids) : ids[j] = 0 \/ ids[j] >= Len(id_map)
                  THEN Panic
                  ELSE [new_kind EXCEPT
                          !.ids = [j \in 1..Len(ids) |-> id_map[ids[j] + 1]]]
             ELSE IF \E j \in 1..Len(ids) : ids[j] # 0
                  THEN Panic
                  ELSE [new_kind EXCEPT
                          !.ids = [j \in 1..Len(ids) |-> ndx + j]]

\* fit_clone, second loop over new_kinds
FitCloneRewrite(copy) ==
    [n \in 1..Len(copy.new_kinds) |->
        FitCloneFix(copy.new_kinds[n], n - 1, copy.id_map)]

\* the Rex returned, unless a panic!() or a failed assertion was met
FitCloneEnd(new_kinds) ==
    IF \E n \in 1..Len(new_kinds) : new_kinds[n] = Panic
    THEN Panicked
    ELSE new_kinds

\* Rex::fit_clone
fit_clone(kinds) ==
    FitCloneEnd(FitCloneRewrite(FitCloneCopy(kinds, 1, << >>, << >>)))

(***************************************************************************)
(* The context and the content of the aces backend, as far as the compiler *)
(* uses them: ctx.nodes is the table of interned node names (a node's id   *)
(* is its place in the table), ctx.contents maps the names that have       *)
(* content to it.  A content holds, for causes and for effects, the pairs  *)
(* <<node id, monomial of node ids>>.                                      *)
(***************************************************************************)
NewContent == [causes |-> {}, effects |-> {}]

\* Context::share_node_name
IdOf(nodes, node) == CHOOSE i \in 1..Len(nodes) : nodes[i] = node
InternNode(nodes, node) ==
    IF node \in Range(nodes) THEN nodes ELSE Append(nodes, node)

RECURSIVE InternAll(_, _, _)
InternAll(nodes, seq, i) ==
    IF i > Len(seq) THEN nodes
    ELSE InternAll(InternNode(nodes, seq[i]), seq, i + 1)

\* the order of monomials in a polynomial: that of their sorted node lists
LexLess(s, t) ==
    \E k \in 1..Len(s) + 1 :
        /\ \A j \in 1..(k - 1) : j <= Len(t) /\ s[j] = t[j]
        /\ \/ (k = Len(s) + 1 /\ Len(t) >= k)
           \/ (k <= Len(s) /\ k <= Len(t) /\ s[k] < t[k])

RECURSIVE PolyNodeSeq(_)
PolyNodeSeq(p) ==
    IF p = {} THEN << >>
    ELSE LET m == CHOOSE x \in p :
                    \A y \in p \ {x} : LexLess(SortedSeq(x), SortedSeq(y))
         IN  SortedSeq(m) \o PolyNodeSeq(p \ {m})

\* Polynomial::compile_as_vec: interns every node, monomial by monomial,
\* and yields the monomials of node ids
CompileNodes(nodes, p) == InternAll(nodes, PolyNodeSeq(p), 1)
compile_as_vec(nodes, p) ==
    LET tbl == CompileNodes(nodes, p)
    IN  { { IdOf(tbl, n) : n \in m } : m \in p }

\* PartialContent::add_to_causes, add_to_effects
add_to(side, id, poly) == side \cup { << id, m >> : m \in poly }

\* PartialContent += : the polynomials of every node are summed
ContentAdd(x, y) ==
    [causes |-> x.causes \cup y.causes, effects |-> x.effects \cup y.effects]

\* PartialContent *= : the polynomials of a node both sides mention are
\* multiplied, the others are kept
SideIds(side) == { e[1] : e \in side }
SideMul(x, y) ==
    { e \in x : e[1] \notin SideIds(y) }
    \cup { e \in y : e[1] \notin SideIds(x) }
    \cup UNION { { << e[1], e[2] \cup f[2] >> : f \in { g \in y : g[1] = e[1] } } :
                 e \in x }

ContentMul(x, y) ==
    [causes  |-> SideMul(x.causes, y.causes),
     effects |-> SideMul(x.effects, y.effects)]

(***************************************************************************)
(* The compiler.                                                           *)
(***************************************************************************)
\* ThinArrowRule::get_compiled_content, the loop over the node list, the
\* cause and the effect being compiled and nodes the table they leave
TarContent(tar, cause, effect, nodes) ==
    [content |->
        [causes  |-> UNION { add_to({}, IdOf(nodes, n), cause) :
                               n \in Range(tar.nodes) },
         effects |-> UNION { add_to({}, IdOf(nodes, n), effect) :
                               n \in Range(tar.nodes) }],
     nodes |-> nodes]

\* the table after the cause, the effect and the node list are interned,
\* in this order
TarNodes(tar, nodes) ==
    InternAll(CompileNodes(CompileNodes(nodes, tar.cause), tar.effect),
              tar.nodes, 1)

TarCompiled(tar, nodes) ==
    TarContent(tar, compile_as_vec(nodes, tar.cause),
               compile_as_vec(nodes, tar.effect), nodes)

\* ThinArrowRule::get_compiled_content: the content, and the table of
\* interned nodes it leaves
TarCompile(tar, nodes) == TarCompiled(tar, TarNodes(tar, nodes))

Ok(content) == [tag |-> "Ok", content |-> content]
Err(error)  == [tag |-> "Err", error |-> error]
InvalidAST  == [error |-> "InvalidAST"]
FatLeak     == [error |-> "FatLeak"]
UnexpectedDependency(name) == [error |-> "UnexpectedDependency", name |-> name]

None == [some |-> FALSE]
Some(x) == [some |-> TRUE, val |-> x]

\* the child ids of the Sums and Products in the order the first loop of
\* get_compiled_content visits them, as <<pos, i>>
RECURSIVE Edges(_, _)
Edges(rex, pos) ==
    IF pos >= Len(rex) THEN << >>
    ELSE LET kind == rex[pos + 1]
         IN  (IF IsTree(kind)
              THEN [j \in 1..Len(kind.ids) |-> << pos, kind.ids[j] >>]
              ELSE << >>)
             \o Edges(rex, pos + 1)

\* a first loop that records no parent
ParentLoopFlat(edges, e, parent_pos, len) ==
    [error |-> "none", parent_pos |-> parent_pos]

\* parent_pos after the first loop, or the error it returns; an id beyond
\* kinds.len() makes the indexing panic
RECURSIVE ParentLoop(_, _, _, _)
ParentLoop(edges, e, parent_pos, len) ==
    IF e > Len(edges) THEN [error |-> "none", parent_pos |-> parent_pos]
    ELSE LET pos == edges[e][1]
             i   == edges[e][2]
         IN  IF i > pos
             THEN IF i >= len
                  THEN [error |-> "panic", parent_pos |-> parent_pos]
                  ELSE ParentLoop(edges, e + 1,
                                  [parent_pos EXCEPT ![i + 1] = pos], len)
             ELSE [error |-> "InvalidAST", parent_pos |-> parent_pos]

\* a match arm for Instance that takes missing content for empty content
VisitLenient(kind, slot, contents, nodes) ==
    CASE kind.kind = "Thin" ->
            [error |-> None, content |-> TarCompile(kind.tar, nodes).content,
             nodes |-> TarNodes(kind.tar, nodes)]
      [] kind.kind = "Fat" ->
            [error |-> Some(FatLeak), nodes |-> nodes]
      [] kind.kind = "Instance" ->
            [error |-> None,
             content |-> IF kind.name \in DOMAIN contents
                         THEN contents[kind.name] ELSE NewContent,
             nodes |-> nodes]
      [] OTHER ->
            IF slot.some
            THEN [error |-> None, content |-> slot.val, nodes |-> nodes]
            ELSE [error |-> Some(InvalidAST), nodes |-> nodes]

\* the second loop, the match on rex.kinds[pos]: the content of the
\* position, or the error returned
Visit(kind, slot, contents, nodes) ==
    CASE kind.kind = "Thin" ->
            [error |-> None, content |-> TarCompile(kind.tar, nodes).content,
             nodes |-> TarNodes(kind.tar, nodes)]
      [] kind.kind = "Fat" ->
            [error |-> Some(FatLeak), nodes |-> nodes]
      [] kind.kind = "Instance" ->
            IF kind.name \in DOMAIN contents
            THEN [error |-> None, content |-> contents[kind.name],
                  nodes |-> nodes]
            ELSE [error |-> Some(UnexpectedDependency(kind.name)),
                  nodes |-> nodes]
      [] OTHER ->
            IF slot.some
            THEN [error |-> None, content |-> slot.val, nodes |-> nodes]
            ELSE [error |-> Some(InvalidAST), nodes |-> nodes]

\* merged_content after merged_content[pos].take()
Taken(rex, pos, merged_content) ==
    IF IsTree(rex[pos + 1])
    THEN [merged_content EXCEPT ![pos + 1] = None]
    ELSE merged_content

\* the second loop, from pos down to 0: merged_content holds the slot of
\* every position, nodes is the context's table of interned nodes
RECURSIVE FoldLoop(_, _, _, _, _, _)

\* the content of pos is combined into the slot of its parent
Combine(rex, pos, taken, parent_pos, contents, got, parent) ==
    IF taken[parent + 1].some
    THEN IF rex[parent + 1].kind = "Product"
         THEN FoldLoop(rex, pos - 1,
                [taken EXCEPT ![parent + 1] =
                    Some(ContentMul(taken[parent + 1].val, got.content))],
                parent_pos, contents, got.nodes)
         ELSE IF rex[parent + 1].kind = "Sum"
         THEN FoldLoop(rex, pos - 1,
                [taken EXCEPT ![parent + 1] =
                    Some(ContentAdd(taken[parent + 1].val, got.content))],
                parent_pos, contents, got.nodes)
         ELSE [result |-> Err(InvalidAST), nodes |-> got.nodes]
    ELSE [result |-> Err(InvalidAST), nodes |-> got.nodes]

\* one turn of the second loop after the match
FoldStep(rex, pos, merged_content, parent_pos, contents, got) ==
    IF got.error.some
    THEN [result |-> Err(got.error.val), nodes |-> got.nodes]
    ELSE IF pos > 0
    THEN Combine(rex, pos, Taken(rex, pos, merged_content), parent_pos,
                 contents, got, parent_pos[pos + 1])
    ELSE [result |-> Ok(got.content), nodes |-> got.nodes]

FoldLoop(rex, pos, merged_content, parent_pos, contents, nodes) ==
    FoldStep(rex, pos, merged_content, parent_pos, contents,
             Visit(rex[pos + 1], merged_content[pos + 1], contents, nodes))

\* get_compiled_content after the first loop, pp being what it left
LowerFold(rex, ctx, pp) ==
    IF pp.error = "InvalidAST"
    THEN [result |-> Err(InvalidAST), nodes |-> ctx.nodes]
    ELSE IF pp.error = "panic"
    THEN [result |-> [tag |-> "Panic"], nodes |-> ctx.nodes]
    ELSE FoldLoop(rex, Len(rex) - 1,
                  [i \in 1..Len(rex) |->
                      IF IsTree(rex[i]) THEN Some(NewContent) ELSE None],
                  pp.parent_pos, ctx.contents, ctx.nodes)

\* the body of get_compiled_content after `let rex = self.fit_clone()`
Lower(rex, ctx) ==
    IF rex = << >> THEN [result |-> Ok(NewContent), nodes |-> ctx.nodes]
    ELSE LowerFold(rex, ctx,
                   ParentLoop(Edges(rex, 0), 1, [i \in 1..Len(rex) |-> 0],
                              Len(rex)))

\* a get_compiled_content that folds self as it is given
LowerAsGiven(self, ctx) == Lower(self, ctx)

\* impl CompilableAsContent for Rex: get_compiled_content
get_compiled_content(self, ctx) == Lower(fit_clone(self), ctx)

(***************************************************************************)
(* The inputs the model draws from.                                        *)
(***************************************************************************)
\* tails of from_parts: 1..MaxTail pairs <<op, poly>>
Tails == UNION { [1..n -> FatOps \X Polys] : n \in 1..MaxTail }

\* the leaves of the rule expressions that are built: j -> k -> l, the fat
\* arrow rules a => a and a <= b => c, and the instances d() and e()
LeafTars == { ThinArrowRule(<< 2 >>, {{1}}, {{3}}) }
FarLoop == from_parts({{1}}, << << "FatTx", {{1}} >> >>)
FarFork == from_parts({{1}}, << << "FatRx", {{2}} >>, << "FatTx", {{3}} >> >>)
Names == {"d", "e"}

\* impl From<ThinArrowRule>, From<FatArrowRule>, From<CesInstance> for Rex:
\* the single-leaf Rexes an expression starts from
LeafKinds ==
    { Thin(t) : t \in LeafTars } \cup { Fat(FarLoop), Instance("d") }

\* the contexts a Rex is compiled against: some names have content, and
\* some nodes are interned already
KnownContent(name) ==
    IF name = "d" THEN [causes |-> {<< 1, {1} >>}, effects |-> {}]
    ELSE [causes |-> {}, effects |-> {<< 1, {1} >>}]
Contexts ==
    { [contents |-> [n \in D |-> KnownContent(n)], nodes |-> t] :
        D \in SUBSET Names, t \in { << 3 >> } }
NoContext == [contents |-> << >>, nodes |-> << >>]

BinOps == {"None", "Add"}

(***************************************************************************)
(* Grammar (grammar.rs): nonterminals in the order of nonterminal_ids(),   *)
(* terminals, and productions in the order of iter(); a production is its  *)
(* left-hand side and its right-hand side, and its ProductionID is its      *)
(* place in the sequence, counted from 1.                                   *)
(***************************************************************************)
Production(lhs, rhs) == [lhs |-> lhs, rhs |-> rhs]
Grammar(nonterminals, terminals, prods) ==
    [nonterminals |-> nonterminals, terminals |-> terminals, prods |-> prods]

\* Grammar::is_terminal, Production::rhs_nonterminals
is_terminal(grammar, id) == id \in grammar.terminals
RECURSIVE rhs_nonterminals(_, _, _)
rhs_nonterminals(grammar, rhs, i) ==
    IF i > Len(rhs) THEN << >>
    ELSE (IF is_terminal(grammar, rhs[i]) THEN << >> ELSE << rhs[i] >>)
         \o rhs_nonterminals(grammar, rhs, i + 1)

(***************************************************************************)
(* Generator: the derivation data gathered by with_grammar and set_axiom.  *)
(***************************************************************************)
\* with_grammar, the loop over prod.rhs(): Some(sum) with sum starting at
\* 1, or None when `continue 'outer` is taken
RECURSIVE RhsSum(_, _, _, _)
RhsSum(symbol_min, rhs, i, sum) ==
    IF i > Len(rhs) THEN Some(sum)
    ELSE IF symbol_min[rhs[i]].some
    THEN RhsSum(symbol_min, rhs, i + 1, sum + symbol_min[rhs[i]].val)
    ELSE None

\* map_or(true, |v| sum < v)
Improves(old, sum) == ~old.some \/ sum < old.val

\* with_grammar, the body of 'outer for production prod_id once its sum
\* is known; d holds symbol_min, prod_min, best_prod and no_change
WithGrammarStep(d, lhs, prod_id, sum) ==
    IF ~sum.some \/ ~Improves(d.prod_min[prod_id], sum.val) THEN d
    ELSE IF Improves(d.symbol_min[lhs], sum.val)
    THEN [d EXCEPT !.prod_min[prod_id] = sum,
                   !.symbol_min[lhs] = sum,
                   !.best_prod[lhs] = Some(prod_id),
                   !.no_change = FALSE]
    ELSE [d EXCEPT !.prod_min[prod_id] = sum]

\* with_grammar, 'outer
RECURSIVE WithGrammarPass(_, _, _)
WithGrammarPass(grammar, d, prod_id) ==
    IF prod_id > Len(grammar.prods) THEN d
    ELSE WithGrammarPass(grammar,
            WithGrammarStep(d, grammar.prods[prod_id].lhs, prod_id,
                            RhsSum(d.symbol_min, grammar.prods[prod_id].rhs, 1, 1)),
            prod_id + 1)

\* a loop that ends after its first pass, whatever the pass changed
WithGrammarOnePass(grammar, d) == d

\* with_grammar, the loop that ends after a pass with no_change
RECURSIVE WithGrammarLoop(_, _)
WithGrammarLoopOn(grammar, d) ==
    IF d.no_change THEN d ELSE WithGrammarLoop(grammar, d)
WithGrammarLoop(grammar, d) ==
    WithGrammarLoopOn(grammar,
        WithGrammarPass(grammar, [d EXCEPT !.no_change = TRUE], 1))

\* Generator::with_grammar: symbol_min, prod_min and best_prod
with_grammar(grammar) ==
    WithGrammarLoop(grammar,
        [symbol_min |->
            [x \in grammar.terminals \cup Range(grammar.nonterminals) |->
                IF x \in grammar.terminals THEN Some(1) ELSE None],
         best_prod |-> [x \in Range(grammar.nonterminals) |-> None],
         prod_min  |-> [p \in 1..Len(grammar.prods) |-> None],
         no_change |-> TRUE])

\* set_axiom, the loop over prod.rhs_nonterminals(); a holds min_through,
\* best_parent and no_change
RECURSIVE SetAxiomElements(_, _, _, _, _)
SetAxiomElements(a, elements, i, prod_id, sum) ==
    IF i > Len(elements) THEN a
    ELSE SetAxiomElements(
            IF Improves(a.min_through[elements[i]], sum)
            THEN [a EXCEPT !.min_through[elements[i]] = Some(sum),
                           !.best_parent[elements[i]] = Some(prod_id),
                           !.no_change = FALSE]
            ELSE a,
            elements, i + 1, prod_id, sum)

\* set_axiom, the body of the loop over the productions
SetAxiomStep(grammar, d, a, prod_id, lhs) ==
    IF d.prod_min[prod_id].some /\ a.min_through[lhs].some
       /\ d.symbol_min[lhs].some
    THEN SetAxiomElements(a,
            rhs_nonterminals(grammar, grammar.prods[prod_id].rhs, 1), 1,
            prod_id,
            a.min_through[lhs].val + d.prod_min[prod_id].val
                - d.symbol_min[lhs].val)
    ELSE a

RECURSIVE SetAxiomPass(_, _, _, _)
SetAxiomPass(grammar, d, a, prod_id) ==
    IF prod_id > Len(grammar.prods) THEN a
    ELSE SetAxiomPass(grammar, d,
            SetAxiomStep(grammar, d, a, prod_id, grammar.prods[prod_id].lhs),
            prod_id + 1)

RECURSIVE SetAxiomLoop(_, _, _)
SetAxiomLoopOn(grammar, d, a) ==
    IF a.no_change THEN a ELSE SetAxiomLoop(grammar, d, a)
SetAxiomLoop(grammar, d, a) ==
    SetAxiomLoopOn(grammar, d,
        SetAxiomPass(grammar, d, [a EXCEPT !.no_change = TRUE], 1))

\* Generator::set_axiom for an axiom that is a nonterminal of the grammar:
\* min_through and best_parent, d being what with_grammar gathered
set_axiom(grammar, d, axiom_id) ==
    SetAxiomLoop(grammar, d,
        [min_through |-> [x \in Range(grammar.nonterminals) |->
                            IF x = axiom_id THEN d.symbol_min[axiom_id] ELSE None],
         best_parent |-> [x \in Range(grammar.nonterminals) |-> None],
         no_change |-> TRUE])

(***************************************************************************)
(* Generator: emission.  e holds which_prod, on_stack, prod_marked,        *)
(* in_sentence and out_sentence; a Sentence is its Vec of symbols, push    *)
(* appending and pop taking the last one.                                  *)
(***************************************************************************)
\* enum ProductionUsed
Ready == [tag |-> "Ready"]
Unsure == [tag |-> "Unsure"]
Finished == [tag |-> "Finished"]
ID(prod_id) == [tag |-> "ID", id |-> prod_id]

\* Sentence::as_string: the terminals' names in reversed order, one space
\* between two names; the string is kept as the sequence of its names
RECURSIVE Reversed(_)
Reversed(symbols) ==
    IF symbols = << >> THEN << >>
    ELSE << symbols[Len(symbols)] >>
         \o Reversed(SubSeq(symbols, 1, Len(symbols) - 1))
\* the names in the order the Vec holds them
Unreversed(symbols) == symbols
as_string(symbols) == Reversed(symbols)

\* Generator::start_emission
start_emission(grammar) ==
    [which_prod   |-> [x \in Range(grammar.nonterminals) |-> Ready],
     on_stack     |-> [x \in Range(grammar.nonterminals) |-> 0],
     prod_marked  |-> [p \in 1..Len(grammar.prods) |-> FALSE],
     in_sentence  |-> << >>,
     out_sentence |-> << >>]

\* What one turn of next()'s loop leaves: the emission state, how the turn
\* went on ("go", "none" for `return None`, "panic" for an unwrap of None,
\* "hang" for a loop that cannot end, "underflow" for the subtraction
\* 0 - 1 on a usize), the production it chose and the nonterminal that
\* update_sentence returned
Turned(e, ret, prod_id, next_nt) ==
    [e |-> e, ret |-> ret, prod_id |-> prod_id, next_nt |-> next_nt]

\* Generator::use_best_production, as the last step of choosing
use_best_production(d, e, nt) ==
    IF ~d.best_prod[nt].some THEN Turned(e, "panic", 0, None)
    ELSE Turned([e EXCEPT !.prod_marked[d.best_prod[nt].val] = TRUE,
                          !.which_prod[nt] =
                              IF @ # Finished THEN Ready ELSE @],
                "go", d.best_prod[nt].val, None)

\* Generator::choose_productions
RECURSIVE choose_productions(_, _, _)
choose_productions(grammar, e, prod_id) ==
    IF prod_id > Len(grammar.prods) THEN e
    ELSE choose_productions(grammar,
            IF ~e.prod_marked[prod_id]
               /\ e.which_prod[grammar.prods[prod_id].lhs] \in { Ready, Unsure }
            THEN [e EXCEPT !.which_prod[grammar.prods[prod_id].lhs] = ID(prod_id),
                           !.prod_marked[prod_id] = TRUE]
            ELSE e,
            prod_id + 1)

\* next(), the `while let Some(best_prod_id) = best_parent[best_lhs]` loop.
\* Neither best_parent nor on_stack changes in it, so a walk of more steps
\* than there are nonterminals never ends: walked counts the steps, and the
\* result is None for such a walk
RECURSIVE BestParentWalk(_, _, _, _, _, _)
BestParentStep(grammar, a, e, other_nt_id, best_prod_id, walked) ==
    IF e.on_stack[grammar.prods[best_prod_id].lhs] = 0 THEN Some(e)
    ELSE IF walked >= Len(grammar.nonterminals) THEN None
    ELSE BestParentWalk(grammar, a,
            IF e.on_stack[other_nt_id] = 0
            THEN [e EXCEPT !.which_prod[grammar.prods[best_prod_id].lhs] =
                               ID(best_prod_id),
                           !.prod_marked[best_prod_id] = TRUE]
            ELSE [e EXCEPT !.which_prod[grammar.prods[best_prod_id].lhs] = Unsure],
            other_nt_id, grammar.prods[best_prod_id].lhs, walked + 1)
BestParentWalk(grammar, a, e, other_nt_id, best_lhs, walked) ==
    IF ~a.best_parent[best_lhs].some THEN Some(e)
    ELSE BestParentStep(grammar, a, e, other_nt_id,
                        a.best_parent[best_lhs].val, walked)

\* next(), the loop over other_nt_id; oe is Some(e), or None after a walk
\* that cannot end
RECURSIVE OtherNonterminals(_, _, _, _, _)
OtherNonterminals(grammar, a, axiom_id, oe, i) ==
    IF ~oe.some \/ i > Len(grammar.nonterminals) THEN oe
    ELSE OtherNonterminals(grammar, a, axiom_id,
            IF grammar.nonterminals[i] # axiom_id
               /\ oe.val.which_prod[grammar.nonterminals[i]].tag = "ID"
            THEN BestParentWalk(grammar, a, oe.val, grammar.nonterminals[i],
                                grammar.nonterminals[i], 0)
            ELSE oe,
            i + 1)

\* next(), the loop that turns every Ready tag into Finished
ReadyToFinished(e) ==
    [e EXCEPT !.which_prod =
        [x \in DOMAIN e.which_prod |->
            IF e.which_prod[x] = Ready THEN Finished ELSE e.which_prod[x]]]

\* next(), the end of the default branch of the match
DefaultChoice(d, axiom_id, e, nt) ==
    IF nt = axiom_id /\ e.which_prod[nt] = Finished /\ e.on_stack[axiom_id] = 0
    THEN Turned(e, "none", 0, None)
    ELSE IF e.which_prod[nt].tag = "ID"
    THEN Turned([e EXCEPT !.which_prod[nt] = Ready], "go",
                e.which_prod[nt].id, None)
    ELSE use_best_production(d, e, nt)

DefaultBranch(d, axiom_id, e, oe, nt) ==
    IF ~oe.some THEN Turned(e, "hang", 0, None)
    ELSE DefaultChoice(d, axiom_id, ReadyToFinished(oe.val), nt)

\* next(), the match on which_prod[nt_id]
Choose(grammar, d, a, axiom_id, e, nt) ==
    IF e.which_prod[nt] = Finished
    THEN IF nt = axiom_id THEN Turned(e, "none", 0, None)
         ELSE use_best_production(d, e, nt)
    ELSE IF e.which_prod[nt].tag = "ID"
    THEN Turned([e EXCEPT !.which_prod[nt] = Ready], "go",
                e.which_prod[nt].id, None)
    ELSE DefaultBranch(d, axiom_id, e,
            OtherNonterminals(grammar, a, axiom_id,
                Some(choose_productions(grammar, e, 1)), 1),
            nt)

\* update_sentence, the loop that pushes the right-hand side
RECURSIVE PushRhs(_, _, _, _)
PushRhs(grammar, e, rhs, i) ==
    IF i > Len(rhs) THEN e
    ELSE PushRhs(grammar,
            IF is_terminal(grammar, rhs[i])
            THEN [e EXCEPT !.in_sentence = Append(@, rhs[i])]
            ELSE [e EXCEPT !.in_sentence = Append(@, rhs[i]),
                           !.on_stack[rhs[i]] = @ + 1],
            rhs, i + 1)

\* update_sentence, the loop that pops up to the next nonterminal
RECURSIVE PopTerminals(_, _, _)
PopTerminals(grammar, e, prod_id) ==
    IF e.in_sentence = << >> THEN Turned(e, "go", prod_id, None)
    ELSE IF is_terminal(grammar, e.in_sentence[Len(e.in_sentence)])
    THEN PopTerminals(grammar,
            [e EXCEPT !.in_sentence = SubSeq(@, 1, Len(@) - 1),
                      !.out_sentence = Append(@, e.in_sentence[Len(e.in_sentence)])],
            prod_id)
    ELSE Turned([e EXCEPT !.in_sentence = SubSeq(@, 1, Len(@) - 1)],
                "go", prod_id, Some(e.in_sentence[Len(e.in_sentence)]))

\* Generator::update_sentence
update_sentence(grammar, e, prod_id) ==
    PopTerminals(grammar,
        PushRhs(grammar, e, grammar.prods[prod_id].rhs, 1), prod_id)

\* next(), from the decrement of on_stack[nt_id] to the end of the turn
Expand(grammar, t, nt) ==
    IF t.ret # "go" THEN t
    ELSE IF t.e.on_stack[nt] = 0 THEN Turned(t.e, "underflow", t.prod_id, None)
    ELSE update_sentence(grammar,
            [t.e EXCEPT !.on_stack[nt] = @ - 1], t.prod_id)

\* next(), one turn of its loop
Turn(grammar, d, a, axiom_id, e, nt) ==
    Expand(grammar, Choose(grammar, d, a, axiom_id, e, nt), nt)

(***************************************************************************)
(* State.  cur is the Rex being built and op the last operation on it;    *)
(* self and rexlist are what the last with_more or fit_clone was given;    *)
(* ctx is the context the last compilation was given, result what it       *)
(* returned and interned the context's node table after it.                *)
(*  far, tx_tars, rx_tars, fit_pc and passes are the FIT         *)
(* transformation of one fat arrow rule, step by step; head and tail are   *)
(* what from_parts was given to build far.                                 *)
(*  fold_rex, merged_content, parent_pos and fold_pos are the locals rex,  *)
(* merged_content, parent_pos and pos of one call of get_compiled_content  *)
(* on cur and ctx, followed loop turn by loop turn; combined counts, for   *)
(* every index, the times its content was combined into a parent's slot.   *)
(*  grammar to num_emitted are the fields of one Generator and the grammar *)
(* it is used with; nt_id is the local of next(), gen_pc where the         *)
(* generator's caller is, returned what the last call of next() returned,  *)
(* emitted the strings returned so far, derivation the pairs of            *)
(* nonterminal and production that the turns of the current call expanded, *)
(* and applied the productions expanded in the calls that returned a       *)
(* string.                                                                 *)
(***************************************************************************)
VARIABLES cur, op, self, rexlist, ctx, result, interned,
          head, tail, far, tx_tars, rx_tars, fit_pc, passes,
          fold_rex, merged_content, parent_pos, fold_pos, fold_pc, combined,
          grammar, symbol_min, prod_min, best_prod,
          axiom_id, min_through, best_parent,
          which_prod, on_stack, prod_marked, in_sentence, out_sentence,
          num_emitted, nt_id, gen_pc, returned, emitted, derivation, applied

rex_vars == << cur, op, self, rexlist, ctx, result, interned >>
fit_vars == << head, tail, far, tx_tars, rx_tars, fit_pc, passes >>
fold_vars ==
    << fold_rex, merged_content, parent_pos, fold_pos, fold_pc, combined >>
vars == << cur, op, self, rexlist, ctx, result, interned,
           head, tail, far, tx_tars, rx_tars, fit_pc, passes,
           fold_rex, merged_content, parent_pos, fold_pos, fold_pc, combined,
           grammar, symbol_min, prod_min, best_prod,
           axiom_id, min_through, best_parent,
           which_prod, on_stack, prod_marked, in_sentence, out_sentence,
           num_emitted, nt_id, gen_pc, returned, emitted, derivation, applied >>
data_vars == << symbol_min, prod_min, best_prod >>
axiom_vars == << axiom_id, min_through, best_parent >>
emission_vars ==
    << which_prod, on_stack, prod_marked, in_sentence, out_sentence >>
gen_vars == << grammar, data_vars, axiom_vars, emission_vars, num_emitted,
               nt_id, gen_pc, returned, emitted, derivation, applied >>

\* the variables a part of the program leaves alone
beside_rex == << fit_vars, fold_vars, gen_vars >>
beside_fit == << rex_vars, fold_vars, gen_vars >>
beside_fold == << fit_vars, gen_vars >>
beside_gen == << rex_vars, fit_vars, fold_vars >>

\* Generator::new() and no grammar yet
GenIdle ==
    /\ grammar = Grammar(<< >>, {}, << >>)
    /\ symbol_min = << >>
    /\ prod_min = << >>
    /\ best_prod = << >>
    /\ axiom_id = None
    /\ min_through = << >>
    /\ best_parent = << >>
    /\ which_prod = << >>
    /\ on_stack = << >>
    /\ prod_marked = << >>
    /\ in_sentence = << >>
    /\ out_sentence = << >>
    /\ num_emitted = 0
    /\ nt_id = None
    /\ gen_pc = "idle"
    /\ returned = None
    /\ emitted = << >>
    /\ derivation = << >>
    /\ applied = {}

FitIdle ==
    /\ head = EmptyPoly
    /\ tail = << >>
    /\ far = << >>
    /\ tx_tars = << >>
    /\ rx_tars = << >>
    /\ fit_pc = "idle"
    /\ passes = 0

FoldIdle ==
    /\ fold_rex = << >>
    /\ merged_content = << >>
    /\ parent_pos = << >>
    /\ fold_pos = 0
    /\ fold_pc = "idle"
    /\ combined = << >>

RexIdle ==
    /\ cur = << >>
    /\ op = "idle"
    /\ self = << >>
    /\ rexlist = << >>
    /\ ctx = NoContext
    /\ result = None
    /\ interned = << >>

NotCompiled ==
    /\ ctx' = NoContext
    /\ result' = None
    /\ interned' = << >>

(***************************************************************************)
(* Building, normalising and compiling rule expressions.                   *)
(***************************************************************************)
Init ==
    /\ cur \in { << k >> : k \in LeafKinds }
    /\ op = "from"
    /\ self = << >>
    /\ rexlist = << >>
    /\ ctx = NoContext
    /\ result = None
    /\ interned = << >>
    /\ FitIdle
    /\ FoldIdle
    /\ GenIdle

\* Rex::from(rule) and Rex::from(instance)
FromLeaf ==
    \E k \in LeafKinds :
        /\ cur' = << k >>
        /\ op' = "from"
        /\ self' = << >>
        /\ rexlist' = << >>
        /\ NotCompiled
        /\ UNCHANGED beside_rex

\* the rule expressions a suffix is made of: the instance e(), the fat
\* arrow rule a <= b => c, and j -> k -> l + { a => a } built beforehand
Operands ==
    { << Instance("e") >>, << Fat(FarFork) >> }
    \cup { with_more(<< Thin(t) >>, << << "Add", << Fat(FarLoop) >> >> >>) :
             t \in LeafTars }
RexLists == UNION { [1..n -> BinOps \X Operands] : n \in 0..MaxSuffix }

RECURSIVE TotalLen(_, _)
TotalLen(list, i) ==
    IF i > Len(list) THEN 0
    ELSE Len(list[i][2]) + TotalLen(list, i + 1)

WithMore ==
    \E list \in RexLists :
        /\ Len(cur) + TotalLen(list, 1) + 1 <= MaxKinds
        /\ Len(with_more(cur, list)) <= MaxKinds
        /\ cur' = with_more(cur, list)
        /\ op' = "with_more"
        /\ self' = cur
        /\ rexlist' = list
        /\ NotCompiled
        /\ UNCHANGED beside_rex

FitClone ==
    /\ cur' = fit_clone(cur)
    /\ op' = "fit_clone"
    /\ self' = cur
    /\ rexlist' = << >>
    /\ NotCompiled
    /\ UNCHANGED beside_rex

Compile ==
    \E c \in Contexts :
        \E r \in { get_compiled_content(cur, c) } :
            /\ ctx' = c
            /\ result' = r.result
            /\ interned' = r.nodes
            /\ op' = "compile"
            /\ self' = << >>
            /\ rexlist' = << >>
            /\ UNCHANGED << cur, beside_rex >>

Next == FromLeaf \/ WithMore \/ FitClone \/ Compile

Spec == Init /\ [][Next]_vars

(***************************************************************************)
(* The FIT transformation of one fat arrow rule, one loop turn at a time.  *)
(***************************************************************************)
InitFit ==
    /\ RexIdle
    /\ FoldIdle
    /\ GenIdle
    /\ head \in Polys
    /\ tail \in Tails
    /\ far = from_parts(head, tail)
    /\ tx_tars = << >>
    /\ rx_tars = << >>
    /\ fit_pc = "phase1"
    /\ passes = 0

FitPhase1 ==
    /\ fit_pc = "phase1"
    /\ tx_tars' = Phase1Tx(far)
    /\ rx_tars' = Phase1Rx(far)
    /\ fit_pc' = "loop"
    /\ UNCHANGED << head, tail, far, passes, beside_fit >>

FitLoopTurn ==
    /\ fit_pc = "loop"
    /\ \E b \in { LoopBody(tx_tars, rx_tars) } :
           /\ tx_tars' = b.tx_tars
           /\ rx_tars' = b.rx_tars
           /\ fit_pc' = IF b.at_fixpoint THEN "phase4" ELSE "loop"
    /\ passes' = passes + 1
    /\ UNCHANGED << head, tail, far, beside_fit >>

FitPhase4 ==
    /\ fit_pc = "phase4"
    /\ tx_tars' = Phase4(tx_tars, rx_tars, 1)
    /\ rx_tars' = << >>
    /\ fit_pc' = "done"
    /\ UNCHANGED << head, tail, far, passes, beside_fit >>

NextFit == FitPhase1 \/ FitLoopTurn \/ FitPhase4

SpecFit == InitFit /\ [][NextFit]_vars

(***************************************************************************)
(* One call of get_compiled_content, loop turn by loop turn.               *)
(***************************************************************************)
\* the rule expressions compiled: a leaf followed by up to two operands
FoldLists == UNION { [1..n -> BinOps \X Operands] : n \in 0..2 }
FoldRexes == { with_more(<< k >>, list) : k \in LeafKinds, list \in FoldLists }

InitFold ==
    /\ cur \in FoldRexes
    /\ op = "get_compiled_content"
    /\ self = << >>
    /\ rexlist = << >>
    /\ ctx \in Contexts
    /\ result = None
    /\ interned = ctx.nodes
    /\ FitIdle
    /\ GenIdle
    /\ fold_rex = << >>
    /\ merged_content = << >>
    /\ parent_pos = << >>
    /\ fold_pos = 0
    /\ fold_pc = "start"
    /\ combined = << >>

\* let rex = self.fit_clone(), and the early return for no kinds
FoldStart ==
    /\ fold_pc = "start"
    /\ fold_rex' = fit_clone(cur)
    /\ IF fold_rex' = << >>
       THEN result' = Ok(NewContent) /\ fold_pc' = "done"
       ELSE result' = result /\ fold_pc' = "parents"
    /\ UNCHANGED << cur, op, self, rexlist, ctx, interned, merged_content,
                    parent_pos, fold_pos, combined, beside_fold >>

\* the first loop: the slots of the Sums and Products, and parent_pos
FoldParents ==
    /\ fold_pc = "parents"
    /\ \E pp \in { ParentLoop(Edges(fold_rex, 0), 1,
                              [i \in 1..Len(fold_rex) |-> 0], Len(fold_rex)) } :
          /\ parent_pos' = pp.parent_pos
          /\ IF pp.error = "none"
             THEN result' = result /\ fold_pc' = "fold"
             ELSE /\ result' = IF pp.error = "InvalidAST" THEN Err(InvalidAST)
                               ELSE [tag |-> "Panic"]
                  /\ fold_pc' = "done"
    /\ merged_content' = [i \in 1..Len(fold_rex) |->
                            IF IsTree(fold_rex[i]) THEN Some(NewContent) ELSE None]
    /\ fold_pos' = Len(fold_rex) - 1
    /\ combined' = [i \in 1..Len(fold_rex) |-> 0]
    /\ UNCHANGED << cur, op, self, rexlist, ctx, interned, fold_rex,
                    beside_fold >>

\* what the match of the second loop gives at fold_pos
Visited ==
    Visit(fold_rex[fold_pos + 1], merged_content[fold_pos + 1],
          ctx.contents, interned)

\* the slot of the parent after the content is combined into it
Combined(parent_content, parent_kind, content) ==
    IF parent_kind.kind = "Product"
    THEN Some(ContentMul(parent_content, content))
    ELSE Some(ContentAdd(parent_content, content))

\* a turn of the second loop that returns an error from the match
FoldFail ==
    /\ fold_pc = "fold"
    /\ \E got \in { Visited } :
          /\ got.error.some
          /\ result' = Err(got.error.val)
          /\ interned' = got.nodes
    /\ fold_pc' = "done"
    /\ UNCHANGED << cur, op, self, rexlist, ctx, fold_rex, merged_content,
                    parent_pos, fold_pos, combined, beside_fold >>

\* a turn of the second loop for pos > 0: the content is combined into
\* the slot of the parent, or InvalidAST is returned
FoldCombine ==
    /\ fold_pc = "fold"
    /\ fold_pos > 0
    /\ \E got \in { Visited } :
       \E taken \in { Taken(fold_rex, fold_pos, merged_content) } :
       \E parent \in { parent_pos[fold_pos + 1] } :
          /\ ~got.error.some
          /\ interned' = got.nodes
          /\ IF taken[parent + 1].some /\ IsTree(fold_rex[parent + 1])
             THEN /\ merged_content' =
                        [taken EXCEPT ![parent + 1] =
                            Combined(taken[parent + 1].val,
                                     fold_rex[parent + 1], got.content)]
                  /\ combined' = [combined EXCEPT ![fold_pos + 1] = @ + 1]
                  /\ fold_pos' = fold_pos - 1
                  /\ UNCHANGED << result, fold_pc >>
             ELSE /\ result' = Err(InvalidAST)
                  /\ fold_pc' = "done"
                  /\ merged_content' = taken
                  /\ UNCHANGED << combined, fold_pos >>
    /\ UNCHANGED << cur, op, self, rexlist, ctx, fold_rex, parent_pos,
                    beside_fold >>

\* the turn of the second loop for pos = 0: the content is returned
FoldReturn ==
    /\ fold_pc = "fold"
    /\ fold_pos = 0
    /\ \E got \in { Visited } :
          /\ ~got.error.some
          /\ result' = Ok(got.content)
          /\ interned' = got.nodes
    /\ merged_content' = Taken(fold_rex, fold_pos, merged_content)
    /\ fold_pc' = "done"
    /\ UNCHANGED << cur, op, self, rexlist, ctx, fold_rex, parent_pos,
                    fold_pos, combined, beside_fold >>

NextFold == FoldStart \/ FoldParents \/ FoldFail \/ FoldCombine \/ FoldReturn

SpecFold == InitFold /\ [][NextFold]_vars

(***************************************************************************)
(* The sentence generator: with_grammar, set_axiom, start_emission and     *)
(* then next() until it returns None, one turn of its loop at a time.      *)
(***************************************************************************)
Nonterminals == << "S", "A", "B" >>
Terminals == { "a", "b" }
\* the names set_axiom is called with; "X" is no nonterminal
AxiomNames == { "S", "X" }

\* the productions the grammars are made of
Productions ==
    { Production("S", r) :
        r \in { << >>, << "a" >>, << "A", "A" >>, << "S", "S" >>,
                << "S", "A" >>, << "A", "S" >> } }
    \cup { Production("A", r) :
        r \in { << "a" >>, << "b" >>, << "B" >>, << "S", "S" >> } }
    \cup { Production("B", r) : r \in { << >>, << "b" >> } }
\* the production lists, no production twice
Grammars ==
    { Grammar(Nonterminals, Terminals, ps) :
        ps \in { q \in UNION { [1..n -> Productions] : n \in 1..MaxProds } :
                    \A i, j \in DOMAIN q : q[i] = q[j] => i = j } }

\* the fields of the generator as the records its functions work on
Data == [symbol_min |-> symbol_min, prod_min |-> prod_min,
         best_prod |-> best_prod]
AxiomData == [min_through |-> min_through, best_parent |-> best_parent]
Emission == [which_prod |-> which_prod, on_stack |-> on_stack,
             prod_marked |-> prod_marked, in_sentence |-> in_sentence,
             out_sentence |-> out_sentence]

\* clear_axiom and clear_emission
ClearAxiom ==
    /\ axiom_id' = None
    /\ min_through' = << >>
    /\ best_parent' = << >>
ClearEmission ==
    /\ which_prod' = << >>
    /\ on_stack' = << >>
    /\ prod_marked' = << >>
    /\ in_sentence' = << >>
    /\ out_sentence' = << >>
    /\ num_emitted' = 0

\* the emission state after a function that works on it
Emits(e) ==
    /\ which_prod' = e.which_prod
    /\ on_stack' = e.on_stack
    /\ prod_marked' = e.prod_marked
    /\ in_sentence' = e.in_sentence
    /\ out_sentence' = e.out_sentence

InitGen ==
    /\ RexIdle
    /\ FitIdle
    /\ FoldIdle
    /\ grammar = Grammar(<< >>, {}, << >>)
    /\ symbol_min = << >>
    /\ prod_min = << >>
    /\ best_prod = << >>
    /\ axiom_id = None
    /\ min_through = << >>
    /\ best_parent = << >>
    /\ which_prod = << >>
    /\ on_stack = << >>
    /\ prod_marked = << >>
    /\ in_sentence = << >>
    /\ out_sentence = << >>
    /\ num_emitted = 0
    /\ nt_id = None
    /\ gen_pc = "new"
    /\ returned = None
    /\ emitted = << >>
    /\ derivation = << >>
    /\ applied = {}

\* Generator::new().with_grammar(&grammar)
WithGrammar ==
    /\ gen_pc = "new"
    /\ \E g \in Grammars :
           /\ grammar' = g
           /\ \E d \in { with_grammar(g) } :
                  /\ symbol_min' = d.symbol_min
                  /\ prod_min' = d.prod_min
                  /\ best_prod' = d.best_prod
    /\ ClearAxiom
    /\ ClearEmission
    /\ gen_pc' = "grammar"
    /\ UNCHANGED << nt_id, returned, emitted, derivation, applied,
                    beside_gen >>

\* generator.set_axiom(&grammar, axiom)
SetAxiom ==
    /\ gen_pc = "grammar"
    /\ \E axiom \in AxiomNames :
           IF axiom \in Range(grammar.nonterminals)
           THEN \E a \in { set_axiom(grammar, Data, axiom) } :
                    /\ axiom_id' = Some(axiom)
                    /\ min_through' = a.min_through
                    /\ best_parent' = a.best_parent
                    /\ gen_pc' = "axiom"
           ELSE /\ ClearAxiom
                /\ gen_pc' = "no_axiom"
    /\ ClearEmission
    /\ UNCHANGED << grammar, data_vars, nt_id, returned, emitted, derivation,
                    applied, beside_gen >>

\* generator.start_emission(&grammar)
StartEmission ==
    /\ gen_pc = "axiom"
    /\ Emits(start_emission(grammar))
    /\ num_emitted' = 0
    /\ gen_pc' = "emitting"
    /\ UNCHANGED << grammar, data_vars, axiom_vars, nt_id, returned, emitted,
                    derivation, applied, beside_gen >>

\* next(), up to its loop; the iterator may be asked again after it has
\* returned None
NextBegin ==
    /\ gen_pc \in { "emitting", "ended" }
    /\ num_emitted < MaxCalls
    /\ out_sentence' = << >>
    /\ on_stack' = [on_stack EXCEPT ![axiom_id.val] = 1]
    /\ nt_id' = axiom_id
    /\ derivation' = << >>
    /\ gen_pc' = "loop"
    /\ UNCHANGED << grammar, data_vars, axiom_vars, which_prod, prod_marked,
                    in_sentence, num_emitted, returned, emitted, applied,
                    beside_gen >>

\* the productions of a derivation
ProductionsOf(steps) == { steps[i][2] : i \in DOMAIN steps }

\* next(), one turn of its loop and, after the last one, its return
NextTurn ==
    /\ gen_pc = "loop"
    /\ Len(derivation) < MaxTurns
    /\ \E t \in { Turn(grammar, Data, AxiomData, axiom_id.val, Emission,
                       nt_id.val) } :
           /\ Emits(t.e)
           /\ IF t.ret # "go"
              THEN /\ gen_pc' = IF t.ret = "none" THEN "ended" ELSE t.ret
                   /\ returned' = None
                   /\ UNCHANGED << nt_id, derivation, num_emitted, emitted,
                                   applied >>
              ELSE IF t.next_nt.some
              THEN /\ gen_pc' = "loop"
                   /\ nt_id' = t.next_nt
                   /\ derivation' = Append(derivation, << nt_id.val, t.prod_id >>)
                   /\ UNCHANGED << num_emitted, returned, emitted, applied >>
              ELSE /\ gen_pc' = "emitting"
                   /\ nt_id' = None
                   /\ derivation' = Append(derivation, << nt_id.val, t.prod_id >>)
                   /\ num_emitted' = num_emitted + 1
                   /\ returned' = Some(as_string(t.e.out_sentence))
                   /\ emitted' = Append(emitted, as_string(t.e.out_sentence))
                   /\ applied' = applied \cup ProductionsOf(derivation)
                                         \cup { t.prod_id }
    /\ UNCHANGED << grammar, data_vars, axiom_vars, beside_gen >>

NextGen == WithGrammar \/ SetAxiom \/ StartEmission \/ NextBegin \/ NextTurn

SpecGen == InitGen /\ [][NextGen]_vars

(***************************************************************************)
(* Properties.                                                             *)
(***************************************************************************)
Trees(rex) == { p \in 0..(Len(rex) - 1) : IsTree(rex[p + 1]) }

\* how many times id c is listed as a child in rex
RECURSIVE CountIn(_, _, _)
CountIn(ids, c, j) ==
    IF j > Len(ids) THEN 0
    ELSE (IF ids[j] = c THEN 1 ELSE 0) + CountIn(ids, c, j + 1)

RECURSIVE Listed(_, _, _)
Listed(rex, c, p) ==
    IF p >= Len(rex) THEN 0
    ELSE (IF IsTree(rex[p + 1]) THEN CountIn(rex[p + 1].ids, c, 1) ELSE 0)
         + Listed(rex, c, p + 1)

ForwardTree(rex) ==
    /\ \A p \in Trees(rex) :
          \A j \in 1..Len(rex[p + 1].ids) :
              rex[p + 1].ids[j] > p /\ rex[p + 1].ids[j] < Len(rex)
    /\ \A c \in 1..(Len(rex) - 1) : Listed(rex, c, 0) = 1
    /\ Listed(rex, 0, 0) = 0

HasFat(rex) == \E i \in 1..Len(rex) : rex[i].kind = "Fat"

\* C1: every Rex built from single-leaf Rexes by with_more and fit_clone
\* is a forward-only tree rooted at index 0: a child id is greater than
\* the index of the node listing it and less than kinds.len(), every
\* index but 0 is listed as a child exactly once, and 0 never.
C1_ForwardTree == ForwardTree(cur)

\* a normalised Rex with a Sum or Product below a Sum or Product that is
\* not the root, built by with_more from an operand that has a tree
C1_Witness ==
    /\ op = "fit_clone"
    /\ HasFat(self)
    /\ \E p \in Trees(cur) : \E q \in Trees(cur) :
          /\ p > 0
          /\ q > p
          /\ \E j \in 1..Len(cur[p + 1].ids) : cur[p + 1].ids[j] = q

\* C2: fit_clone(r) contains no Fat kind.
C2_NoFat == op = "fit_clone" => ~HasFat(cur)

\* fit_clone acted on a Rex with a Fat below the root
C2_Witness ==
    /\ op = "fit_clone"
    /\ Len(self) > 1
    /\ HasFat(self)
    /\ Len(cur) > Len(self)

\* C3: fit_clone is idempotent: fit_clone(fit_clone(r)) = fit_clone(r).
C3_Idempotent == op = "fit_clone" => fit_clone(cur) = cur

\* fit_clone acted on a Rex with two Fats, and changed it
C3_Witness ==
    /\ op = "fit_clone"
    /\ \E i \in 1..Len(self) : \E j \in 1..Len(self) :
          i < j /\ self[i].kind = "Fat" /\ self[j].kind = "Fat"
    /\ cur # self
    /\ fit_clone(cur) = cur

\* the names of the Instances of rex, and those without content in c
InstanceNames(rex) ==
    { rex[i].name : i \in { k \in 1..Len(rex) : rex[k].kind = "Instance" } }
Resolves(c, rex) == InstanceNames(rex) \subseteq DOMAIN c.contents
LastMissing(c, rex) ==
    CHOOSE i \in 1..Len(rex) :
        /\ rex[i].kind = "Instance" /\ rex[i].name \notin DOMAIN c.contents
        /\ \A k \in (i + 1)..Len(rex) :
              rex[k].kind = "Instance" => rex[k].name \in DOMAIN c.contents

\* C4, as stated: compiling a Rex that still contains a Fat kind fails
\* with the error FatLeak.
C4_FatLeak ==
    (op = "compile" /\ HasFat(cur)) => result = Err(FatLeak)

\* C4, amended: compiling a Rex that still contains a Fat kind never
\* fails with FatLeak, because get_compiled_content normalises the Rex
\* itself before folding it: the result is Ok whenever the context
\* resolves every Instance of the Rex, and UnexpectedDependency otherwise.
C4_Normalises ==
    (op = "compile" /\ HasFat(cur)) =>
        /\ result # Err(FatLeak)
        /\ Resolves(ctx, cur) => result.tag = "Ok"
        /\ ~Resolves(ctx, cur) =>
              result.tag = "Err" /\ result.error.error = "UnexpectedDependency"

\* a Rex with a Fat compiled to content that has the fork's node b
C4_Witness ==
    /\ op = "compile"
    /\ HasFat(cur)
    /\ result.tag = "Ok"
    /\ result.content.effects # {}

\* C5: against a context that resolves every Instance of r, compiling r
\* and compiling fit_clone(r) from the same context state yield the same
\* content (and leave the same nodes interned).
C5_SameContent ==
    (op = "compile" /\ Resolves(ctx, cur)) =>
        /\ result = get_compiled_content(fit_clone(cur), ctx).result
        /\ interned = get_compiled_content(fit_clone(cur), ctx).nodes
        /\ result.tag = "Ok"

\* a Rex with a Fat and an Instance compiled, fit_clone changing it
C5_Witness ==
    /\ op = "compile"
    /\ InstanceNames(cur) # {}
    /\ Resolves(ctx, cur)
    /\ HasFat(cur)
    /\ fit_clone(cur) # cur
    /\ result.tag = "Ok"
    /\ result = get_compiled_content(fit_clone(cur), ctx).result

\* what the rules of tars say about node n, and what the parts of a
\* FatArrowRule say about it, as sets of monomials
TarEffectsAt(tars, n) ==
    UNION { tars[i].effect : i \in { k \in 1..Len(tars) : n \in Range(tars[k].nodes) } }
TarCausesAt(tars, n) ==
    UNION { tars[i].cause : i \in { k \in 1..Len(tars) : n \in Range(tars[k].nodes) } }
PartEffectsAt(parts, n) ==
    UNION { parts[i].effect : i \in { k \in 1..Len(parts) : n \in UNION parts[k].cause } }
PartCausesAt(parts, n) ==
    UNION { parts[i].cause : i \in { k \in 1..Len(parts) : n \in UNION parts[k].effect } }

\* C6: FIT preserves meaning: for a FatArrowRule whose parts have
\* non-empty polynomials and every node n, the effects of the returned
\* rules whose node list contains n add up to the effects of the parts
\* whose cause mentions n, and the causes of the returned rules whose node
\* list contains n add up to the causes of the parts whose effect mentions
\* n; a node no part mentions gets nothing.
C6_MeaningPreserved ==
    fit_pc = "done" =>
        \A n \in Nodes :
            /\ TarEffectsAt(tx_tars, n) = PartEffectsAt(far, n)
            /\ TarCausesAt(tx_tars, n) = PartCausesAt(far, n)

\* FIT returned after more than one merging iteration on three parts or
\* more, with a rule of several nodes, a rule whose effect was added up
\* and a rule with cause and effect, one node being mentioned by no part
C6_Witness ==
    /\ fit_pc = "done"
    /\ passes >= 3
    /\ Len(far) >= 3
    /\ \E i \in 1..Len(tx_tars) : Len(tx_tars[i].nodes) >= 2
    /\ \E i \in 1..Len(tx_tars) :
          /\ Cardinality(tx_tars[i].effect) >= 2
          /\ \A k \in 1..Len(far) : far[k].effect # tx_tars[i].effect
    /\ \E i \in 1..Len(tx_tars) :
          tx_tars[i].cause # EmptyPoly /\ tx_tars[i].effect # EmptyPoly
    /\ \E n \in Nodes : \A k \in 1..Len(far) :
          n \notin UNION far[k].cause /\ n \notin UNION far[k].effect

\* the kind k of a member stored at distance off from where it was
Moved(k, off) ==
    IF IsTree(k) THEN [kind |-> k.kind, ids |-> [j \in 1..Len(k.ids) |-> k.ids[j] + off]]
    ELSE k

\* member is stored in rex from index root on, unchanged up to the shift
Embedded(rex, root, member) ==
    /\ root + Len(member) <= Len(rex)
    /\ \A k \in 1..Len(member) : rex[root + k] = Moved(member[k], root)

\* the members of with_more(me, list): me, then the Rexes of list; the
\* members that start a run, in order; the last member of the r-th run
Members(me, list) == << me >> \o [i \in 1..Len(list) |-> list[i][2]]
RunStarts(list) ==
    SortedSeq({1} \cup { i + 1 : i \in { k \in 1..Len(list) : list[k][1] = "Add" } })
RunLast(list, r) ==
    IF r < Len(RunStarts(list)) THEN RunStarts(list)[r + 1] - 1 ELSE Len(list) + 1

\* the addend at index a of rex is the run of members first..last
IsAddend(rex, a, me, list, first, last) ==
    IF first = last THEN Embedded(rex, a, Members(me, list)[first])
    ELSE /\ rex[a + 1].kind = "Product"
         /\ Len(rex[a + 1].ids) = last - first + 1
         /\ \A j \in 1..(last - first + 1) :
               Embedded(rex, rex[a + 1].ids[j], Members(me, list)[first + j - 1])

WithMoreShape(rex, me, list) ==
    IF Len(RunStarts(list)) = 1
    THEN /\ rex[1].kind = "Product"
         /\ Len(rex[1].ids) = Len(list) + 1
         /\ \A m \in 1..(Len(list) + 1) :
               Embedded(rex, rex[1].ids[m], Members(me, list)[m])
         /\ Len(rex) = 1 + Len(me) + TotalLen(list, 1)
    ELSE /\ rex[1].kind = "Sum"
         /\ Len(rex[1].ids) = Len(RunStarts(list))
         /\ \A r \in 1..Len(RunStarts(list)) :
               IsAddend(rex, rex[1].ids[r], me, list,
                        RunStarts(list)[r], RunLast(list, r))
         /\ Len(rex) = 1 + Len(me) + TotalLen(list, 1)
                       + Cardinality({ r \in 1..Len(RunStarts(list)) :
                                         RunLast(list, r) > RunStarts(list)[r] })

\* C7: with_more(self, suffix) with a non-empty suffix of operators None
\* and Add: the members self, rex_1, ..., rex_n are split before every Add
\* into runs.  With one run the root is a Product of the members' roots in
\* order; otherwise the root is a Sum with one addend per run in order,
\* the addend being the member's root for a run of one member and a
\* Product of the members' roots for a longer run; every member's subtree
\* is kept unchanged up to the index shift.
C7_WithMoreRuns ==
    (op = "with_more" /\ rexlist # << >>) => WithMoreShape(cur, self, rexlist)

\* with_more acted on a suffix None, Add, None: a run of two, then a run
\* of two, each a Product below the Sum
C7_Witness ==
    /\ op = "with_more"
    /\ Len(rexlist) = 3
    /\ rexlist[1][1] = "None" /\ rexlist[2][1] = "Add" /\ rexlist[3][1] = "None"
    /\ cur[1] = Sum(<< 1, 4 >>)
    /\ cur[2] = Product(<< 2, 3 >>)
    /\ cur[5] = Product(<< 5, 6 >>)

\* the index in fit_clone(rex) of the kind at index i of rex: every Fat
\* before it takes as many more places as FIT returns rules for it
RECURSIVE FitImage(_, _)
FitImage(rex, i) ==
    IF i = 0 THEN 0
    ELSE FitImage(rex, i - 1) + 1
         + (IF rex[i].kind = "Fat" THEN Len(FIT(rex[i].parts)) ELSE 0)

FitCloneShapeAt(rex, new, i) ==
    IF rex[i + 1].kind = "Fat"
    THEN /\ new[FitImage(rex, i) + 1]
              = Sum([k \in 1..Len(FIT(rex[i + 1].parts)) |-> FitImage(rex, i) + k])
         /\ \A k \in 1..Len(FIT(rex[i + 1].parts)) :
               new[FitImage(rex, i) + 1 + k] = Thin(FIT(rex[i + 1].parts)[k])
    ELSE IF IsTree(rex[i + 1])
    THEN new[FitImage(rex, i) + 1]
            = [kind |-> rex[i + 1].kind,
               ids  |-> [j \in 1..Len(rex[i + 1].ids) |->
                            FitImage(rex, rex[i + 1].ids[j])]]
    ELSE new[FitImage(rex, i) + 1] = rex[i + 1]

\* C8: fit_clone(r) is r with each Fat replaced in place by a Sum whose
\* children are the rules FIT returns for it, in FIT's order, at the
\* indices right after that Sum; every other kind is kept in the same
\* relative order, and every child id of a Sum or Product of r points to
\* the image of the node it pointed to in r.
C8_FitCloneShape ==
    op = "fit_clone" =>
        /\ Len(cur) = FitImage(self, Len(self))
        /\ \A i \in 0..(Len(self) - 1) : FitCloneShapeAt(self, cur, i)

\* fit_clone acted on a Rex with a Fat that FIT turns into two rules,
\* a Sum or Product after that Fat, and a leaf after that tree
C8_Witness ==
    /\ op = "fit_clone"
    /\ \E i \in 1..Len(self) : \E k \in 1..Len(self) :
          /\ i < k /\ k < Len(self)
          /\ self[i].kind = "Fat" /\ Len(FIT(self[i].parts)) = 2
          /\ IsTree(self[k])
          /\ cur[FitImage(self, k - 1) + 1].ids # self[k].ids

\* C9, as stated: every Sum and every Product of fit_clone(r) has at
\* least two children, for every Rex r built by construction, one with
\* the FatArrowRule a => a included.
C9_NoSingleChild ==
    op = "fit_clone" =>
        \A p \in Trees(cur) : Len(cur[p + 1].ids) >= 2

\* fit_clone of the Rex of a => a alone: a Sum of one rule
C9_Witness ==
    /\ op = "fit_clone"
    /\ self = << Fat(FarLoop) >>
    /\ Len(cur) = 2
    /\ cur[1] = Sum(<< 1 >>)
    /\ cur[2].kind = "Thin"

\* C10: if an Instance of the Rex names content the context lacks when
\* the fold reaches it (the fold runs from the last index down, so this is
\* the missing Instance of greatest index), get_compiled_content returns
\* UnexpectedDependency with that Instance's name and no content, whatever
\* other kinds the Rex contains.
C10_UnexpectedDependency ==
    (op = "compile" /\ ~Resolves(ctx, cur)) =>
        /\ result = Err(UnexpectedDependency(cur[LastMissing(ctx, cur)].name))
        /\ "content" \notin DOMAIN result

\* a Rex with a Fat, a Thin and two unresolved Instances of different
\* names compiled: the Thin after the last missing Instance was folded
\* (its nodes are interned) before the error was returned
C10_Witness ==
    /\ op = "compile"
    /\ HasFat(cur)
    /\ \E i \in 1..Len(cur) : \E k \in 1..Len(cur) :
          /\ i < k
          /\ cur[i].kind = "Instance" /\ cur[k].kind = "Instance"
          /\ cur[i].name # cur[k].name
          /\ cur[i].name \notin DOMAIN ctx.contents
          /\ cur[k].name \notin DOMAIN ctx.contents
          /\ result = Err(UnexpectedDependency(cur[k].name))
    /\ interned # ctx.nodes

\* the polynomial before the i-th element of the tail, the number of parts
\* the elements before the i-th give, and the parts the i-th gives
PrevOf(i) == IF i = 1 THEN head ELSE tail[i - 1][2]
RECURSIVE PartsBefore(_)
PartsBefore(i) ==
    IF i = 1 THEN 0
    ELSE PartsBefore(i - 1) + (IF tail[i - 1][1] = "FatDx" THEN 2 ELSE 1)
TxPart(i) == [cause |-> PrevOf(i), effect |-> tail[i][2]]
RxPart(i) == [cause |-> tail[i][2], effect |-> PrevOf(i)]

\* C11: from_parts(head, tail) with a non-empty tail returns the parts of
\* one left-to-right pass with prev := head: FatTx gives {cause: prev,
\* effect: poly}, FatRx gives {cause: poly, effect: prev}, FatDx gives both
\* in this order, and prev := poly after every step; so there are
\* #FatTx + #FatRx + 2 * #FatDx parts, in the order of the tail.
C11_FromParts ==
    tail # << >> =>
        /\ Len(far) = PartsBefore(Len(tail) + 1)
        /\ \A i \in 1..Len(tail) :
              CASE tail[i][1] = "FatTx" -> far[PartsBefore(i) + 1] = TxPart(i)
                [] tail[i][1] = "FatRx" -> far[PartsBefore(i) + 1] = RxPart(i)
                [] tail[i][1] = "FatDx" ->
                      /\ far[PartsBefore(i) + 1] = TxPart(i)
                      /\ far[PartsBefore(i) + 2] = RxPart(i)

\* a rule  p <=> q <= r  with three different polynomials: three parts,
\* the last one built from the polynomial of the first step
C11_Witness ==
    /\ Len(tail) = 2
    /\ tail[1][1] = "FatDx" /\ tail[2][1] = "FatRx"
    /\ head # tail[1][2] /\ tail[1][2] # tail[2][2] /\ head # tail[2][2]
    /\ Len(far) = 3
    /\ far[3] = [cause |-> tail[2][2], effect |-> tail[1][2]]

\* C18: the rules FIT returns are fully merged: no two have equal node
\* lists, no two with a non-empty effect have equal effects, no two with a
\* non-empty cause have equal causes; and step 4 loses no cause-only rule:
\* every rule of rx_tars is found in the result with its nodes and cause.
C18_FullyMerged ==
    /\ [](fit_pc = "done" =>
            \A i \in 1..Len(tx_tars) : \A k \in 1..Len(tx_tars) :
                i # k =>
                    /\ tx_tars[i].nodes # tx_tars[k].nodes
                    /\ tx_tars[i].effect # EmptyPoly =>
                          tx_tars[i].effect # tx_tars[k].effect
                    /\ tx_tars[i].cause # EmptyPoly =>
                          tx_tars[i].cause # tx_tars[k].cause)
    /\ [][fit_pc = "phase4" =>
            \A i \in 1..Len(rx_tars) : \E k \in 1..Len(tx_tars') :
                /\ tx_tars'[k].nodes = rx_tars[i].nodes
                /\ tx_tars'[k].cause = rx_tars[i].cause]_vars

\* FIT returned, after an iteration that merged, three rules or more:
\* one paired by step 4 and one cause-only rule pushed by it
C18_Witness ==
    /\ fit_pc = "done"
    /\ passes >= 2
    /\ Len(tx_tars) >= 3
    /\ \E i \in 1..Len(tx_tars) :
          tx_tars[i].cause # EmptyPoly /\ tx_tars[i].effect # EmptyPoly
    /\ \E i \in 1..Len(tx_tars) :
          tx_tars[i].cause # EmptyPoly /\ tx_tars[i].effect = EmptyPoly

\* the Sum or Product that lists index p, and the table of interned nodes
\* the reverse scan has built when it reaches index p
ParentOf(kinds, p) ==
    CHOOSE q \in Trees(kinds) :
        \E j \in 1..Len(kinds[q + 1].ids) : kinds[q + 1].ids[j] = p
RECURSIVE TableAt(_, _, _)
TableAt(kinds, p, c) ==
    IF p >= Len(kinds) - 1 THEN c.nodes
    ELSE IF kinds[p + 2].kind = "Thin"
    THEN TarNodes(kinds[p + 2].tar, TableAt(kinds, p + 1, c))
    ELSE TableAt(kinds, p + 1, c)

\* the content of the subtree at index p, by recursion over the tree: a
\* leaf is compiled, a Sum adds and a Product multiplies the contents of
\* its children into an empty content, the last child first
RECURSIVE Denote(_, _, _)
RECURSIVE DenoteChildren(_, _, _, _)
Denote(kinds, p, c) ==
    CASE kinds[p + 1].kind = "Thin" ->
            TarCompile(kinds[p + 1].tar, TableAt(kinds, p, c)).content
      [] kinds[p + 1].kind = "Instance" -> c.contents[kinds[p + 1].name]
      [] OTHER -> DenoteChildren(kinds, p, 1, c)
DenoteChildren(kinds, p, j, c) ==
    IF j > Len(kinds[p + 1].ids) THEN NewContent
    ELSE IF kinds[p + 1].kind = "Product"
    THEN ContentMul(DenoteChildren(kinds, p, j + 1, c),
                    Denote(kinds, kinds[p + 1].ids[j], c))
    ELSE ContentAdd(DenoteChildren(kinds, p, j + 1, c),
                    Denote(kinds, kinds[p + 1].ids[j], c))

\* the content the scan holds for index p when it reaches it
ContentAt(p) ==
    CASE fold_rex[p + 1].kind = "Thin" ->
            TarCompile(fold_rex[p + 1].tar, interned).content
      [] fold_rex[p + 1].kind = "Instance" ->
            ctx.contents[fold_rex[p + 1].name]
      [] OTHER -> merged_content[p + 1].val

ChildrenCombined(p) ==
    IsTree(fold_rex[p + 1]) =>
        \A j \in 1..Len(fold_rex[p + 1].ids) :
            combined[fold_rex[p + 1].ids[j] + 1] = 1

\* C19: the reverse scan is a valid post-order fold of a well-formed Rex:
\* the content of a non-root index is combined into the slot of the Sum or
\* Product that lists it exactly once, by *= for a Product and += for a
\* Sum, and only after the contents of all its own children were combined
\* into its slot; what is returned is the slot of the root after all the
\* root's children were combined, which is the content of the tree
\* computed by recursion; the scan never returns InvalidAST.
C19_PostOrderFold ==
    /\ [][(fold_pc = "fold" /\ combined' # combined) =>
            /\ combined[fold_pos + 1] = 0
            /\ combined' = [combined EXCEPT ![fold_pos + 1] = 1]
            /\ ChildrenCombined(fold_pos)
            /\ merged_content[ParentOf(fold_rex, fold_pos) + 1].some
            /\ merged_content'[ParentOf(fold_rex, fold_pos) + 1] =
                  Some(IF fold_rex[ParentOf(fold_rex, fold_pos) + 1].kind = "Product"
                       THEN ContentMul(
                              merged_content[ParentOf(fold_rex, fold_pos) + 1].val,
                              ContentAt(fold_pos))
                       ELSE ContentAdd(
                              merged_content[ParentOf(fold_rex, fold_pos) + 1].val,
                              ContentAt(fold_pos)))]_vars
    /\ [][(fold_pc = "fold" /\ fold_pc' = "done" /\ result'.tag = "Ok") =>
            /\ fold_pos = 0
            /\ ChildrenCombined(0)
            /\ result'.content = ContentAt(0)]_vars
    /\ [](fold_pc = "done" =>
            /\ result # Err(InvalidAST)
            /\ result.tag = "Ok" =>
                  /\ \A p \in 1..(Len(fold_rex) - 1) : combined[p + 1] = 1
                  /\ combined[1] = 0
                  /\ result.content = Denote(fold_rex, 0, ctx))

\* a Rex with a Fat and an Instance, whose normal form has a Sum and a
\* Product below the root, was folded to content with causes and effects
C19_Witness ==
    /\ fold_pc = "done"
    /\ result.tag = "Ok"
    /\ HasFat(cur)
    /\ InstanceNames(cur) # {}
    /\ \E p \in Trees(fold_rex) : p > 0 /\ fold_rex[p + 1].kind = "Sum"
    /\ \E p \in Trees(fold_rex) : p > 0 /\ fold_rex[p + 1].kind = "Product"
    /\ result.content.causes # {} /\ result.content.effects # {}

(***************************************************************************)
(* The sentence generator.                                                 *)
(***************************************************************************)
\* the productions with n on the left
ProductionsFor(n) ==
    { p \in 1..Len(grammar.prods) : grammar.prods[p].lhs = n }

RECURSIVE TotalMin(_, _)
TotalMin(rhs, i) ==
    IF i > Len(rhs) THEN 0 ELSE symbol_min[rhs[i]].val + TotalMin(rhs, i + 1)

Least(numbers) == CHOOSE x \in numbers : \A y \in numbers : x <= y

KnownMins(n) == { prod_min[p].val : p \in { q \in ProductionsFor(n) : prod_min[q].some } }

\* C20: after with_grammar, prod_min[p] is 1 + the sum of symbol_min over
\* the right-hand side of p if every symbol there has a known bound and
\* None otherwise; symbol_min[n] is the least prod_min of the productions
\* with n on the left, None when none is known; best_prod[n] is a
\* production with n on the left whose prod_min is symbol_min[n]; and a
\* terminal's symbol_min is 1.
C20_FixedPoint ==
    gen_pc # "new" =>
        /\ \A x \in grammar.terminals : symbol_min[x] = Some(1)
        /\ \A p \in 1..Len(grammar.prods) :
              prod_min[p] =
                  IF \A i \in 1..Len(grammar.prods[p].rhs) :
                         symbol_min[grammar.prods[p].rhs[i]].some
                  THEN Some(1 + TotalMin(grammar.prods[p].rhs, 1))
                  ELSE None
        /\ \A n \in Range(grammar.nonterminals) :
              /\ symbol_min[n] =
                    IF KnownMins(n) = {} THEN None ELSE Some(Least(KnownMins(n)))
              /\ IF symbol_min[n].some
                 THEN /\ best_prod[n].some
                      /\ best_prod[n].val \in ProductionsFor(n)
                      /\ prod_min[best_prod[n].val] = symbol_min[n]
                 ELSE best_prod[n] = None

\* with_grammar has returned for a grammar in which a nonterminal has two
\* productions of different known lengths, the longer one listed first and
\* made of nonterminals, and another production has no known length
C20_Witness ==
    /\ gen_pc = "grammar"
    /\ \E p, q \in 1..Len(grammar.prods) :
          /\ p < q
          /\ grammar.prods[p].lhs = grammar.prods[q].lhs
          /\ prod_min[p].some /\ prod_min[q].some
          /\ prod_min[q].val < prod_min[p].val
          /\ rhs_nonterminals(grammar, grammar.prods[p].rhs, 1) # << >>
    /\ \E p \in 1..Len(grammar.prods) : prod_min[p] = None

\* the nonterminals that derive a string of terminals, and those that a
\* derivation from the nonterminals in seen can reach
ProductiveStep(known) ==
    known \cup { grammar.prods[p].lhs :
                    p \in { q \in 1..Len(grammar.prods) :
                              Range(grammar.prods[q].rhs) \subseteq known } }
RECURSIVE ProductiveFrom(_)
ProductiveFrom(known) ==
    IF ProductiveStep(known) = known THEN known
    ELSE ProductiveFrom(ProductiveStep(known))
ReachableStep(seen) ==
    seen \cup UNION { Range(grammar.prods[p].rhs) \ grammar.terminals :
                        p \in { q \in 1..Len(grammar.prods) :
                                  grammar.prods[q].lhs \in seen } }
RECURSIVE ReachableFrom(_)
ReachableFrom(seen) ==
    IF ReachableStep(seen) = seen THEN seen
    ELSE ReachableFrom(ReachableStep(seen))

\* the axiom and every nonterminal reachable from it are productive
AllProductive ==
    /\ axiom_id.some
    /\ ReachableFrom({ axiom_id.val }) \subseteq ProductiveFrom(grammar.terminals)

\* t is a turn that leaves the loop where it was but for more symbols on
\* the input stack and larger counts: the tags, the marks, the nonterminal
\* to expand and the counts that are zero are the same, so the next turn
\* chooses and pushes the same again, and so on without end
PumpedBy(t) ==
    /\ t.ret = "go"
    /\ t.next_nt = nt_id
    /\ t.e.which_prod = which_prod
    /\ t.e.prod_marked = prod_marked
    /\ \A n \in DOMAIN on_stack :
          /\ t.e.on_stack[n] >= on_stack[n]
          /\ (t.e.on_stack[n] = 0) = (on_stack[n] = 0)
    /\ Len(t.e.in_sentence) > Len(in_sentence)
    /\ SubSeq(t.e.in_sentence, 1, Len(in_sentence)) = in_sentence

\* C12: for a grammar in which the axiom and every nonterminal reachable
\* from it are productive, each call of next() finishes its expansion
\* loop: the loop is never at the head of a turn that repeats without end.
C12_Terminates ==
    (AllProductive /\ gen_pc = "loop") =>
        ~PumpedBy(Turn(grammar, Data, AxiomData, axiom_id.val, Emission,
                       nt_id.val))

\* the first call of next() for S -> | A S, A -> B, B -> with axiom S has
\* taken all the turns that are followed, each one expanding S by S -> A S,
\* and no string was returned
C12_Witness ==
    /\ grammar.prods = << Production("S", << >>),
                          Production("S", << "A", "S" >>),
                          Production("A", << "B" >>),
                          Production("B", << >>) >>
    /\ AllProductive
    /\ gen_pc = "loop"
    /\ emitted = << >>
    /\ Len(derivation) = MaxTurns
    /\ \A i \in DOMAIN derivation : derivation[i] = << "S", 2 >>
    /\ Len(in_sentence) = MaxTurns

\* the place of the rightmost nonterminal of a sentential form, 0 if none
RightmostNonterminal(form) ==
    IF \A i \in DOMAIN form : form[i] \in grammar.terminals THEN 0
    ELSE CHOOSE i \in DOMAIN form :
            /\ form[i] \notin grammar.terminals
            /\ \A j \in (i + 1)..Len(form) : form[j] \in grammar.terminals

Rewritten(form, k, rhs) ==
    SubSeq(form, 1, k - 1) \o rhs \o SubSeq(form, k + 1, Len(form))

\* from step i on, the steps of derivation rewrite form into the string s:
\* each step replaces the nonterminal it names, which is in the form, by
\* the right-hand side of a production that has it on the left, and the
\* last form is s
RECURSIVE DerivesFrom(_, _, _)
DerivesFrom(form, i, s) ==
    IF i > Len(derivation)
    THEN form = s /\ \A j \in DOMAIN form : form[j] \in grammar.terminals
    ELSE /\ RightmostNonterminal(form) > 0
         /\ form[RightmostNonterminal(form)] = derivation[i][1]
         /\ derivation[i][2] \in 1..Len(grammar.prods)
         /\ grammar.prods[derivation[i][2]].lhs = derivation[i][1]
         /\ DerivesFrom(Rewritten(form, RightmostNonterminal(form),
                                  grammar.prods[derivation[i][2]].rhs),
                        i + 1, s)

\* C13: a string returned by next() is the terminal yield, from left to
\* right, of a complete derivation from the axiom, each step of which
\* replaces a nonterminal n by the right-hand side of a production with n
\* on the left: the steps are the expansions of the call that returned it.
C13_Derivable ==
    (gen_pc = "emitting" /\ returned.some) =>
        DerivesFrom(<< axiom_id.val >>, 1, returned.val)

\* next() has returned a string of two different terminals after three
\* expansions or more
C13_Witness ==
    /\ gen_pc = "emitting"
    /\ returned.some
    /\ Len(returned.val) >= 2
    /\ returned.val[1] # returned.val[2]
    /\ Len(derivation) >= 3

\* C14: within one enumeration no two calls of next() return the same
\* string.
C14_Unique ==
    \A i, j \in DOMAIN emitted : emitted[i] = emitted[j] => i = j

\* the enumeration for the grammar S -> a alone has ended after next()
\* returned the string a twice
C14_Witness ==
    /\ grammar.prods = << Production("S", << "a" >>) >>
    /\ gen_pc = "ended"
    /\ emitted = << << "a" >>, << "a" >> >>

\* the strings of terminals that x derives by a derivation of length m, in
\* the measure of symbol_min: 1 for a terminal, and for a nonterminal 1
\* more than the lengths for the symbols of the production used add up to
RECURSIVE DerivedBy(_, _), DerivedBySeq(_, _, _)
DerivedBy(x, m) ==
    IF x \in grammar.terminals THEN (IF m = 1 THEN { << x >> } ELSE {})
    ELSE IF m < 1 THEN {}
    ELSE UNION { DerivedBySeq(grammar.prods[p].rhs, 1, m - 1) :
                    p \in ProductionsFor(x) }
DerivedBySeq(rhs, i, m) ==
    IF i > Len(rhs) THEN (IF m = 0 THEN { << >> } ELSE {})
    ELSE UNION { { u \o v : u \in DerivedBy(rhs[i], c),
                            v \in DerivedBySeq(rhs, i + 1, m - c) } :
                    c \in 1..m }

\* C15: the enumeration is exhaustive: every sentence of the axiom's
\* language of length at most symbol_min[axiom] + k is returned by some
\* call of next(); so when next() has returned None, the sentences of the
\* least length, symbol_min[axiom], are among the strings returned.
C15_Exhaustive ==
    (gen_pc = "ended" /\ AllProductive) =>
        DerivedBy(axiom_id.val, symbol_min[axiom_id.val].val)
            \subseteq Range(emitted)

\* the enumeration for S -> A A, A -> a | b has ended and b a is the only
\* string returned, of the four sentences of the language, all of length
\* symbol_min[S] = 5
C15_Witness ==
    /\ grammar.prods = << Production("S", << "A", "A" >>),
                          Production("A", << "a" >>),
                          Production("A", << "b" >>) >>
    /\ gen_pc = "ended"
    /\ in_sentence = << >>
    /\ symbol_min["S"] = Some(5)
    /\ DerivedBy("S", 5) = { << "a", "a" >>, << "a", "b" >>,
                             << "b", "a" >>, << "b", "b" >> }
    /\ emitted = << << "b", "a" >> >>

\* C16: next() returns None only when the nonterminal at hand is the
\* axiom, its tag is Finished and the input stack is empty; it never ends
\* the enumeration in the middle of a sentence, after expansions of the
\* same call.
C16_NoneAtAxiomOnly ==
    gen_pc = "ended" =>
        /\ nt_id = axiom_id
        /\ which_prod[axiom_id.val] = Finished
        /\ in_sentence = << >>
        /\ derivation = << >>

\* for S -> a | S A, A -> S S the first call of next() has returned None
\* after three expansions, with S on the input stack and a terminal in the
\* output sentence, and no string was ever returned
C16_Witness ==
    /\ grammar.prods = << Production("S", << "a" >>),
                          Production("S", << "S", "A" >>),
                          Production("A", << "S", "S" >>) >>
    /\ gen_pc = "ended"
    /\ nt_id = axiom_id
    /\ which_prod["S"] = Finished
    /\ Len(derivation) = 3
    /\ in_sentence = << "S" >>
    /\ out_sentence = << "a" >>
    /\ emitted = << >>

\* C17: when next() has returned None, every marked production whose
\* left-hand side can be reached from the axiom was applied in the
\* derivation of a string that next() returned.
C17_MarkedMeansEmitted ==
    gen_pc = "ended" =>
        \A p \in 1..Len(grammar.prods) :
            (prod_marked[p]
             /\ grammar.prods[p].lhs \in ReachableFrom({ axiom_id.val }))
                => p \in applied

\* the enumeration for S -> | A A, A -> b has ended between two sentences
\* with every production marked and b b the only string returned, and
\* S -> (empty) was applied in no derivation
C17_Witness ==
    /\ grammar.prods = << Production("S", << >>),
                          Production("S", << "A", "A" >>),
                          Production("A", << "b" >>) >>
    /\ gen_pc = "ended"
    /\ derivation = << >>
    /\ in_sentence = << >>
    /\ emitted = << << "b", "b" >> >>
    /\ prod_marked = << TRUE, TRUE, TRUE >>
    /\ applied = { 2, 3 }

\* the occurrences of n on the input stack
OnInput(n) == Cardinality({ i \in DOMAIN in_sentence : in_sentence[i] = n })

\* C21: at the head of every turn of next()'s loop, on_stack[n] is, for
\* every nonterminal n, the number of occurrences of n on the input stack,
\* plus one if n is the nonterminal about to be expanded; so the decrement
\* of on_stack for the expanded nonterminal never goes below zero, and all
\* counts are zero when a sentence is completed.
C21_OnStackCounts ==
    /\ gen_pc = "loop" =>
          \A n \in DOMAIN on_stack :
              on_stack[n] = OnInput(n) + (IF nt_id = Some(n) THEN 1 ELSE 0)
    /\ gen_pc # "underflow"
    /\ (gen_pc = "emitting" /\ returned.some) =>
          /\ in_sentence = << >>
          /\ \A n \in DOMAIN on_stack : on_stack[n] = 0

\* for S -> a | S A, A -> S S the first call of next() has returned None
\* and left S on the input stack; the second call is at the head of its
\* first turn, about to expand S, and on_stack[S] is 1
C21_Witness ==
    /\ grammar.prods = << Production("S", << "a" >>),
                          Production("S", << "S", "A" >>),
                          Production("A", << "S", "S" >>) >>
    /\ gen_pc = "loop"
    /\ returned = None
    /\ emitted = << >>
    /\ derivation = << >>
    /\ nt_id = Some("S")
    /\ in_sentence = << "S" >>
    /\ on_stack["S"] = 1

\* C22: the loop of steps 2 and 3 of FIT terminates: no iteration adds a
\* rule to tx_tars or to rx_tars, every iteration that is followed by
\* another one leaves fewer rules in the two lists taken together, and for
\* a fat arrow rule of k parts the loop body runs at most 2k - 1 times.
C22_LoopBound ==
    /\ [][fit_pc = "loop" =>
            /\ Len(tx_tars') <= Len(tx_tars)
            /\ Len(rx_tars') <= Len(rx_tars)
            /\ fit_pc' = "loop" =>
                  Len(tx_tars') + Len(rx_tars') < Len(tx_tars) + Len(rx_tars)]_vars
    /\ [](passes <= 2 * Len(far) - 1)

\* the loop has left its last iteration after two that merged, with fewer
\* rules than step 1 made in each list
C22_Witness ==
    /\ fit_pc = "phase4"
    /\ passes = 3
    /\ Len(tx_tars) < Len(far)
    /\ Len(rx_tars) < Len(far)

====
